---- MODULE Spec2Model ----
(***************************************************************************)
(* Encrypted-string library (tfhe/examples/fhe_strings).  Ciphertexts are  *)
(* modelled by the clear values they decrypt to: every FHE primitive is    *)
(* homomorphic, so an FheUint8 is a u8, an FheUint16 a u16, an FheInt16 an *)
(* i16 and an FheBool a BOOLEAN.                                           *)
(***************************************************************************)
EXTENDS Integers, Sequences, FiniteSets, TLC

VARIABLES chars, padding, pc, res

vars == <<chars, padding, pc, res>>

\* ---------------------------------------------------------------- bounds
\* Longest content vector (public length N) the model builds.
MaxN == 3
\* Longest pattern (public length M) a query is given.
MaxM == 2

\* Bytes of the clear strings: 'a' and 'b'; 0 is the padding byte.
Letters == {97, 98}

\* ------------------------------------------------------------- integers
U16_MAX == 65535

WrapU16(x) == x % 65536

WrapI16(x) == ((x + 32768) % 65536) - 32768

\* ------------------------------------------------------- value type
NoPadding == [start |-> FALSE, middle |-> FALSE, end |-> FALSE]

FheString(cs, pad) == [chars |-> cs, padding |-> pad]

has_padding(s) == s.padding.start \/ s.padding.middle \/ s.padding.end

RECURSIVE Rev(_)
Rev(sq) == IF sq = <<>> THEN <<>> ELSE Append(Rev(Tail(sq)), Head(sq))

reversed(s) ==
  [chars |-> Rev(s.chars),
   padding |-> [start |-> s.padding.end, middle |-> s.padding.middle,
                end |-> s.padding.start]]

RECURSIVE CountNonZero(_)
CountNonZero(sq) ==
  IF sq = <<>> THEN 0
  ELSE (IF Head(sq) # 0 THEN 1 ELSE 0) + CountNonZero(Tail(sq))

\* FheString::len: the number of non-zero bytes, as a u16.
len(s) == WrapU16(CountNonZero(s.chars))

Concat(a, b) ==
  [chars |-> a.chars \o b.chars,
   padding |-> [start |-> a.padding.start,
                middle |-> a.padding.middle \/ a.padding.end
                           \/ b.padding.start \/ b.padding.middle,
                end |-> b.padding.end]]

\* StringClientKey::encrypt with padding block `block`.
NbZeros(n, block) ==
  IF block = 0 THEN (IF n = 0 THEN 1 ELSE 0)
  ELSE IF n >= block THEN n % block ELSE block - n

Encrypt(clear, block) ==
  [chars |-> clear \o [i \in 1..NbZeros(Len(clear), block) |-> 0],
   padding |-> [start |-> FALSE, middle |-> FALSE, end |-> block > 0]]

\* StringClientKey::decrypt: the non-zero bytes, in order.
Decrypt(cs) == SelectSeq(cs, LAMBDA b : b # 0)

\* ------------------------------------------------------- patterns
ClearPattern(p) == [kind |-> "Clear", chars |-> p, padding |-> NoPadding]

EncryptedPattern(s) == [kind |-> "Encrypted", chars |-> s.chars, padding |-> s.padding]

\* has_padding that takes every pattern for unpadded.
pattern_never_padded(pattern) == FALSE

PatternHasPadding(pattern) ==
  IF pattern.kind = "Clear" THEN FALSE ELSE has_padding(pattern)

PatternLen(pattern) == Len(pattern.chars)

ReversedPattern(pattern) ==
  IF pattern.kind = "Clear" THEN ClearPattern(Rev(pattern.chars))
  ELSE EncryptedPattern(reversed(pattern))

\* ------------------------------------------------------- execution nodes
PidZero == [id |-> "Zero", v |-> 0]
PidIndex(p) == [id |-> "Index", v |-> p]
PidByte(b) == [id |-> "Byte", v |-> b]

ExEq(c, pid) == [op |-> "Eq", c_pos |-> c, p_id |-> pid]
ExAnd(l, r) == [op |-> "And", l_res |-> l, r_res |-> r]
ExOr(l, r) == [op |-> "Or", l_res |-> l, r_res |-> r]
ExStartIndex(l, r) == [op |-> "StartIndex", l_res |-> l, r_res |-> r]
ExIndexMatch(c, p) == [op |-> "IndexMatch", c_pos |-> c, p_pos |-> p]
ExPatternMatch(c, p) == [op |-> "PatternMatch", c_pos |-> c, p_pos |-> p]

\* ExecutionTree: a Leaf has no kids, a Node has its two sub-trees.
Leaf(ex) == [op |-> ex, kids |-> <<>>]
Node(ex, l, r) == [op |-> ex, kids |-> <<l, r>>]
IsLeaf(t) == t.kids = <<>>

\* ------------------------------------------------------- plan construction
make_bitwise_op(op_type, l, r) ==
  CASE op_type = "and" -> ExAnd(l, r)
    [] op_type = "or" -> ExOr(l, r)
    [] op_type = "start_index" -> ExStartIndex(l, r)

make_leaf_op(op_type, c_pos, p_id) ==
  CASE op_type = "and" -> ExEq(c_pos, p_id)
    [] op_type = "or" -> ExPatternMatch(c_pos, p_id.v)
    [] op_type = "start_index" -> ExIndexMatch(c_pos, p_id.v)

\* The leaves c_start..c_end; the first one is doubled when the range has one
\* element or starts at an odd position.
build_leaves(c_start, c_end, p_id, op_type) ==
  LET first == IF (c_end - c_start < 1) \/ (c_start % 2 > 0)
               THEN <<Leaf(make_leaf_op(op_type, c_start, p_id))>>
               ELSE <<>>
  IN first \o [i \in 1..(c_end - c_start + 1) |->
                 Leaf(make_leaf_op(op_type, c_start + i - 1, p_id))]

\* chunks(2) that drops a last chunk of one node.
pair_up_dropping_odd(nodes, op_type) ==
  [k \in 1..(Len(nodes) \div 2) |->
     Node(make_bitwise_op(op_type, nodes[2 * k - 1].op, nodes[2 * k].op),
          nodes[2 * k - 1], nodes[2 * k])]

\* One pass of chunks(2): a last odd chunk is paired with itself.  All trees
\* of a level have the same shape, so the Leaf/Node mismatch arm is not taken.
PairUp(nodes, op_type) ==
  [k \in 1..((Len(nodes) + 1) \div 2) |->
     LET left == nodes[2 * k - 1]
         right == IF 2 * k <= Len(nodes) THEN nodes[2 * k] ELSE nodes[2 * k - 1]
     IN Node(make_bitwise_op(op_type, left.op, right.op), left, right)]

RECURSIVE build_bitwise_execution_tree(_, _)
build_bitwise_execution_tree(nodes, op_type) ==
  IF Len(nodes) > 1
  THEN build_bitwise_execution_tree(PairUp(nodes, op_type), op_type)
  ELSE nodes[1]

\* One breadth-first level of insert_execution_tree, left to right: a node
\* already in the cache is skipped together with its children.
RECURSIVE InsertLevel(_, _)
InsertLevel(cache, nodes) ==
  IF nodes = <<>> THEN [cache |-> cache, next |-> <<>>]
  ELSE LET node == Head(nodes)
           children == SelectSeq(node.kids,
                         LAMBDA k : ~(IsLeaf(k) /\ k.op.op = "PatternMatch"))
       IN IF node.op \in cache
          THEN InsertLevel(cache, Tail(nodes))
          ELSE LET rest == InsertLevel(cache \cup {node.op}, Tail(nodes))
               IN [cache |-> rest.cache, next |-> children \o rest.next]

RECURSIVE InsertLevels(_, _)
InsertLevels(cache, nodes) ==
  IF nodes = <<>> THEN cache
  ELSE LET r == InsertLevel(cache, nodes) IN InsertLevels(r.cache, r.next)

\* insert_execution_tree that stores the root and none of its sub-trees.
insert_root_only(cache, root) == cache \cup {root.op}

\* insert_execution_tree: the cache after the insertion; the call returns root.op.
insert_execution_tree(cache, root) == InsertLevels(cache, <<root>>)

ZeroRangeInserted(cache, root) ==
  [cache |-> insert_execution_tree(cache, root), ex |-> root.op]

\* The closure insert_zero_range of consume_pattern.
insert_zero_range(cache, c_start, c_end) ==
  ZeroRangeInserted(cache,
    build_bitwise_execution_tree(build_leaves(c_start, c_end, PidZero, "and"), "and"))

\* And { zero_prefix_ex, main_match }, inserted after the prefix range zp.
WrapPrefix(zp, main_match) ==
  [cache |-> zp.cache \cup {ExAnd(zp.ex, main_match)}, ex |-> ExAnd(zp.ex, main_match)]

\* And { main_match, zero_suffix_ex }, inserted after the suffix range zs.
WrapSuffix(zs, main_match) ==
  [cache |-> zs.cache \cup {ExAnd(main_match, zs.ex)}, ex |-> ExAnd(main_match, zs.ex)]

\* The (true, true) arm: prefix range, suffix range, ex_and, final_and.
WrapBothDone(zp_ex, zs, main_match) ==
  [cache |-> zs.cache \cup {ExAnd(zp_ex, main_match),
                            ExAnd(ExAnd(zp_ex, main_match), zs.ex)},
   ex |-> ExAnd(ExAnd(zp_ex, main_match), zs.ex)]

WrapBoth(zp, c_pos, remain_c, main_match) ==
  WrapBothDone(zp.ex, insert_zero_range(zp.cache, c_pos + 1, c_pos + remain_c - 1),
               main_match)

\* The last match of consume_pattern, on the cache that already holds p_eq
\* and main_match.
WrapZeros(cache, main_match, zero_prefixed, zero_suffixed, c_pos, remain_c) ==
  CASE ~zero_prefixed /\ ~zero_suffixed -> [cache |-> cache, ex |-> main_match]
    [] zero_prefixed /\ ~zero_suffixed ->
         WrapPrefix(insert_zero_range(cache, 0, c_pos - 1), main_match)
    [] ~zero_prefixed /\ zero_suffixed ->
         WrapSuffix(insert_zero_range(cache, c_pos + 1, c_pos + remain_c - 1), main_match)
    [] zero_prefixed /\ zero_suffixed ->
         WrapBoth(insert_zero_range(cache, 0, c_pos - 1), c_pos, remain_c, main_match)

\* main_match with the test on the last pattern position off by one.
main_match_off_by_one(c_pos, p_pos, remain_p, p_id) ==
  IF remain_p < 3 THEN ExEq(c_pos, p_id)
  ELSE ExAnd(ExEq(c_pos, p_id),
             IF p_id.id = "Zero" THEN ExPatternMatch(c_pos + 1, p_pos)
             ELSE ExPatternMatch(c_pos + 1, p_pos + 1))

\* main_match whose PatternMatch stays at the slot c_pos.
main_match_same_slot(c_pos, p_pos, remain_p, p_id) ==
  IF remain_p < 2 THEN ExEq(c_pos, p_id)
  ELSE ExAnd(ExEq(c_pos, p_id),
             IF p_id.id = "Zero" THEN ExPatternMatch(c_pos, p_pos)
             ELSE ExPatternMatch(c_pos, p_pos + 1))

\* main_match of consume_pattern: the bare Eq on the last pattern position,
\* else Eq AND the PatternMatch one slot to the right.
main_match(c_pos, p_pos, remain_p, p_id) ==
  IF remain_p < 2 THEN ExEq(c_pos, p_id)
  ELSE ExAnd(ExEq(c_pos, p_id),
             IF p_id.id = "Zero" THEN ExPatternMatch(c_pos + 1, p_pos)
             ELSE ExPatternMatch(c_pos + 1, p_pos + 1))

\* consume_pattern: the cache with the executions of one branch at
\* (c_pos, p_pos) inserted, and the root execution of the branch.
consume_pattern(cache, c_pos, remain_c, p_pos, remain_p, p_id, match_options, pad) ==
  WrapZeros(cache \cup {ExEq(c_pos, p_id), main_match(c_pos, p_pos, remain_p, p_id)},
            main_match(c_pos, p_pos, remain_p, p_id),
            c_pos > 0 /\ p_pos = 0 /\ match_options.sof /\ pad.start,
            remain_c > 1 /\ remain_p = 1 /\ match_options.eof /\ pad.end,
            c_pos, remain_c)

\* can_consume_zero that also consumes a zero when exactly as much content
\* as pattern remains.
can_consume_zero_at_equal(remain_c, p_pos, remain_p, pad) ==
  /\ remain_c >= remain_p
  /\ \/ (p_pos = 0 /\ pad.start)
     \/ (p_pos > 0 /\ pad.middle)
     \/ (remain_p = 0 /\ pad.end)

can_consume_zero(remain_c, p_pos, remain_p, pad) ==
  /\ remain_c > remain_p
  /\ \/ (p_pos = 0 /\ pad.start)
     \/ (p_pos > 0 /\ pad.middle)
     \/ (remain_p = 0 /\ pad.end)

\* The PatternMatch registered under its combinator and, when that is an Or,
\* under the left branch of the Or as well.
pm_insert_left_too(pm_cache, execution, pattern_match) ==
  (execution :> pattern_match)
    @@ (IF execution.op = "Or" THEN (execution.l_res :> pattern_match) ELSE <<>>)
    @@ pm_cache

\* pm_cache.insert(execution, pattern_match): a later insert under the same
\* key replaces the earlier one.
PmInsert(pm_cache, execution, pattern_match) ==
  (execution :> pattern_match) @@ pm_cache

\* maybe_l_res / maybe_r_res: [cache, ex, some].
Some(r) == [cache |-> r.cache, ex |-> r.ex, some |-> TRUE]

NoBranch(cache) == [cache |-> cache, ex |-> PidZero, some |-> FALSE]

p_id_at(pattern, p_pos) ==
  IF pattern.kind = "Clear" THEN PidByte(pattern.chars[p_pos + 1]) ELSE PidIndex(p_pos)

maybe_l_res(cache, c_pos, remain_c, p_pos, remain_p, pattern, match_options, pad) ==
  IF remain_p > 0
  THEN Some(consume_pattern(cache, c_pos, remain_c, p_pos, remain_p,
                            p_id_at(pattern, p_pos), match_options, pad))
  ELSE NoBranch(cache)

maybe_r_res(cache, c_pos, remain_c, p_pos, remain_p, match_options, pad) ==
  IF can_consume_zero(remain_c, p_pos, remain_p, pad)
  THEN Some(consume_pattern(cache, c_pos, remain_c, p_pos, remain_p,
                            PidZero, match_options, pad))
  ELSE NoBranch(cache)

\* The left branch registered also when there is a zero branch.
branch_left_only(l, r) == IF l.some THEN l.ex ELSE r.ex

\* The execution registered for the PatternMatch: the Or of the two branches,
\* or the only branch there is.
BranchExecution(l, r) ==
  IF l.some /\ r.some THEN ExOr(l.ex, r.ex) ELSE IF l.some THEN l.ex ELSE r.ex

\* The end of one iteration of the worklist loop: b is [cache, pm_cache,
\* panic], push the candidates pushed, in push order.
Registered(b, l, r, c_pos, p_pos, remain_p) ==
  IF ~l.some /\ ~r.some
  THEN [b |-> [b EXCEPT !.panic = "Could not build branch"], push |-> <<>>]
  ELSE [b |-> [cache |-> r.cache \cup {BranchExecution(l, r), ExPatternMatch(c_pos, p_pos)},
               pm_cache |-> PmInsert(b.pm_cache, BranchExecution(l, r),
                                     ExPatternMatch(c_pos, p_pos)),
               panic |-> b.panic],
        push |-> (IF l.some /\ remain_p > 1 THEN <<<<c_pos + 1, p_pos + 1>>>> ELSE <<>>)
                 \o (IF r.some THEN <<<<c_pos + 1, p_pos>>>> ELSE <<>>)]

WithLeft(b, l, c_pos, remain_c, p_pos, remain_p, match_options, pad) ==
  Registered(b, l,
             maybe_r_res(l.cache, c_pos, remain_c, p_pos, remain_p, match_options, pad),
             c_pos, p_pos, remain_p)

\* A candidate that is never found in the cache.
never_planned(cache, c_pos, p_pos) == FALSE

\* self.cache.contains_key(&pattern_match): the candidate was expanded before.
already_planned(cache, c_pos, p_pos) == ExPatternMatch(c_pos, p_pos) \in cache

\* One iteration of the worklist loop of build_execution_plan for the
\* candidate (c_pos, p_pos).  usize subtraction below zero aborts (and where
\* the build wraps instead, the Eq at position N aborts the evaluation).
ExpandCandidate(b, c_pos, p_pos, content, pattern, match_options) ==
  IF Len(content.chars) < c_pos \/ PatternLen(pattern) < p_pos
  THEN [b |-> [b EXCEPT !.panic = "attempt to subtract with overflow"], push |-> <<>>]
  ELSE IF already_planned(b.cache, c_pos, p_pos) THEN [b |-> b, push |-> <<>>]
  ELSE WithLeft(b,
                maybe_l_res(b.cache, c_pos, Len(content.chars) - c_pos, p_pos,
                            PatternLen(pattern) - p_pos, pattern, match_options,
                            content.padding),
                c_pos, Len(content.chars) - c_pos, p_pos, PatternLen(pattern) - p_pos,
                match_options, content.padding)

\* while let Some(..) = match_candidates.pop(): the vector is a stack.
RECURSIVE ExpandAll(_, _, _, _, _)
RECURSIVE ExpandNext(_, _, _, _, _)
ExpandNext(e, rest, content, pattern, match_options) ==
  ExpandAll(e.b, rest \o e.push, content, pattern, match_options)

ExpandAll(b, cands, content, pattern, match_options) ==
  IF cands = <<>> \/ b.panic # "" THEN b
  ELSE ExpandNext(ExpandCandidate(b, cands[Len(cands)][1], cands[Len(cands)][2],
                                  content, pattern, match_options),
                  SubSeq(cands, 1, Len(cands) - 1), content, pattern, match_options)

PlanOf(b, final_op) ==
  [cache |-> b.cache, pm_cache |-> b.pm_cache, panic |-> b.panic, final_op |-> final_op]

PlanFromRoot(root, max_start, content, pattern, match_options) ==
  PlanOf(ExpandAll([cache |-> insert_execution_tree({}, root), pm_cache |-> <<>>,
                    panic |-> ""],
                   [i \in 1..(max_start + 1) |-> <<i - 1, 0>>],
                   content, pattern, match_options),
         root.op)

\* The top-level combinator built as an Or tree whatever the result asked.
op_type_always_or(match_options) == "or"

op_type_of(match_options) ==
  IF match_options.result = "Bool" THEN "or" ELSE "start_index"

PlanFrom(max_start, content, pattern, match_options) ==
  PlanFromRoot(build_bitwise_execution_tree(
                 build_leaves(0, max_start, PidIndex(0), op_type_of(match_options)),
                 op_type_of(match_options)),
               max_start, content, pattern, match_options)

\* build_execution_plan: [cache, pm_cache, panic, final_op].  N - M below zero
\* aborts (where the build wraps instead, the leaves cannot be allocated).
build_execution_plan(content, pattern, match_options) ==
  IF ~match_options.sof /\ Len(content.chars) < PatternLen(pattern)
  THEN [cache |-> {}, pm_cache |-> <<>>, panic |-> "attempt to subtract with overflow",
        final_op |-> PidZero]
  ELSE PlanFrom(IF match_options.sof THEN 0 ELSE Len(content.chars) - PatternLen(pattern),
                content, pattern, match_options)

\* ------------------------------------------------------- FHE values
RECURSIVE BitAnd(_, _)
BitAnd(x, y) ==
  IF x = 0 \/ y = 0 THEN 0
  ELSE (x % 2) * (y % 2) + 2 * BitAnd(x \div 2, y \div 2)

RECURSIVE BitOr(_, _)
BitOr(x, y) ==
  IF x = 0 THEN y
  ELSE IF y = 0 THEN x
  ELSE (IF x % 2 = 1 \/ y % 2 = 1 THEN 1 ELSE 0) + 2 * BitOr(x \div 2, y \div 2)

\* cast_from(FheBool): 1 for true, 0 for false.
CastBool(b) == IF b THEN 1 ELSE 0

\* Option<FheResult>: None, Some(Bool(b)), Some(Uint(u)).
ResNone == [kind |-> "None", b |-> FALSE, u |-> 0]
ResBool(x) == [kind |-> "Bool", b |-> x, u |-> 0]
ResUint(x) == [kind |-> "Uint", b |-> FALSE, u |-> x]
ResPanic == [kind |-> "Panic", b |-> FALSE, u |-> 0]

\* An operand that is still None read as Some(false).
slot_none_as_false(vals, key) ==
  IF key \in DOMAIN vals /\ vals[key].kind # "None" THEN vals[key] ELSE ResBool(FALSE)

\* cache.get(key): Some(slot) when the key is in the plan, None otherwise.
Slot(vals, key) == IF key \in DOMAIN vals THEN vals[key] ELSE ResNone

\* StartIndex as the bitwise or of its operands.
eval_start_index_or(l, r) == BitOr(l, r)

EvalStartIndex(l, r) ==
  LET new_r == BitAnd(r, WrapU16(CastBool(~(l > 0)) * U16_MAX))
  IN BitOr(l, new_r)

\* IndexMatch without the test content.chars[c_pos] > 0.
eval_index_match_unguarded(c_pos, pm, byte) ==
  BitAnd(WrapU16(c_pos + 1), WrapU16(CastBool(pm) * U16_MAX))

EvalIndexMatch(c_pos, pm, byte) ==
  LET must_keep == pm /\ byte > 0
  IN BitAnd(WrapU16(c_pos + 1), WrapU16(CastBool(must_keep) * U16_MAX))

\* The body of one task of a wave: what `execution` computes from the slots
\* `vals`; ResNone when an operand is pending, ResPanic when the task aborts.
new_res(execution, vals, content, pattern) ==
  CASE execution.op = "Eq" ->
         IF execution.c_pos >= Len(content.chars) THEN ResPanic
         ELSE LET byte == content.chars[execution.c_pos + 1]
                  pid == execution.p_id
              IN IF pid.id = "Zero" THEN ResBool(byte = 0)
                 ELSE IF pid.id = "Byte" THEN ResBool(byte = pid.v)
                 ELSE IF pattern.kind # "Encrypted" \/ pid.v >= Len(pattern.chars)
                 THEN ResPanic
                 ELSE ResBool(byte = pattern.chars[pid.v + 1])
    [] execution.op \in {"And", "Or"} ->
         LET l == Slot(vals, execution.l_res)
             r == Slot(vals, execution.r_res)
         IN IF l.kind = "Bool" /\ r.kind = "Bool"
            THEN ResBool(IF execution.op = "And" THEN l.b /\ r.b ELSE l.b \/ r.b)
            ELSE ResNone
    [] execution.op = "StartIndex" ->
         LET l == Slot(vals, execution.l_res)
             r == Slot(vals, execution.r_res)
         IN IF l.kind = "Uint" /\ r.kind = "Uint"
            THEN ResUint(EvalStartIndex(l.u, r.u))
            ELSE ResNone
    [] execution.op = "IndexMatch" ->
         LET pattern_match == ExPatternMatch(execution.c_pos, execution.p_pos)
         IN IF pattern_match \notin DOMAIN vals
               \/ execution.c_pos >= Len(content.chars)
            THEN ResPanic
            ELSE IF vals[pattern_match].kind = "Bool"
            THEN ResUint(EvalIndexMatch(execution.c_pos, vals[pattern_match].b,
                                        content.chars[execution.c_pos + 1]))
            ELSE ResNone
    [] execution.op = "PatternMatch" -> ResNone

\* The slots after a wave in which the tasks `done` computed `out`: a
\* computed value is stored in the execution's slot and in the PatternMatch
\* slot that pm_cache names for the execution.
WaveDone(vals, pending, out, pm_cache) ==
  [vals |-> [k \in DOMAIN vals |->
               IF k \in pending /\ out[k].kind \in {"Bool", "Uint"} THEN out[k]
               ELSE IF \E e \in pending \cap DOMAIN pm_cache :
                         out[e].kind \in {"Bool", "Uint"} /\ pm_cache[e] = k
               THEN out[CHOOSE e \in pending \cap DOMAIN pm_cache :
                          out[e].kind \in {"Bool", "Uint"} /\ pm_cache[e] = k]
               ELSE vals[k]],
   remaining |-> {e \in pending : out[e].kind \notin {"Bool", "Uint"}},
   panic |-> \E e \in pending : out[e].kind = "Panic"]

WaveOf(vals, pending, pm_cache, content, pattern) ==
  WaveDone(vals, pending, [e \in pending |-> new_res(e, vals, content, pattern)], pm_cache)

\* One wave.  Every task reads the slots as they were when the wave began; a
\* task whose slot is already filled, or that computes a value, leaves the
\* list.
Wave(vals, remaining, pm_cache, content, pattern) ==
  WaveOf(vals, {e \in remaining : vals[e].kind = "None"}, pm_cache, content, pattern)

\* while remaining_ops.len() < prev_len { ... }
RECURSIVE RunWaves(_, _, _, _, _, _)
RECURSIVE AfterWave(_, _, _, _, _)
AfterWave(w, prev_len, pm_cache, content, pattern) ==
  IF w.panic THEN w
  ELSE RunWaves(w.vals, w.remaining, prev_len, pm_cache, content, pattern)

RunWaves(vals, remaining, prev_len, pm_cache, content, pattern) ==
  IF ~(Cardinality(remaining) < prev_len)
  THEN [vals |-> vals, remaining |-> remaining, panic |-> FALSE]
  ELSE AfterWave(Wave(vals, remaining, pm_cache, content, pattern),
                 Cardinality(remaining), pm_cache, content, pattern)

\* The end of find_match: the abort on a stalled wave, else the final slot.
FinalResult(run, final_op) ==
  IF run.panic \/ run.remaining # {} THEN ResPanic
  ELSE IF final_op \notin DOMAIN run.vals \/ run.vals[final_op].kind = "None"
  THEN ResPanic
  ELSE run.vals[final_op]

Evaluate(plan, content, pattern) ==
  IF plan.panic # "" THEN ResPanic
  ELSE FinalResult(RunWaves([k \in plan.cache |-> ResNone], plan.cache,
                            Cardinality(plan.cache) + 1, plan.pm_cache,
                            content, pattern),
                   plan.final_op)

\* SimpleEngine::find_match on a fresh engine.  The value computed by the
\* length test at entry is dropped (the block is a statement, it does not
\* return), and the plan is built and evaluated in every case.
find_match(content, pattern, match_options) ==
  IF PatternHasPadding(pattern) THEN ResPanic
  ELSE Evaluate(build_execution_plan(content, pattern, match_options), content, pattern)

AsBool(r) == IF r.kind = "Bool" THEN r ELSE ResPanic

has_match(content, pattern, match_options) ==
  AsBool(find_match(content, pattern, match_options))

RECURSIVE CountZerosBefore(_, _, _)
CountZerosBefore(cs, i, index) ==
  IF i > Len(cs) THEN 0
  ELSE CastBool(cs[i] = 0 /\ index > i - 1) + CountZerosBefore(cs, i + 1, index)

nb_zeros_before(content, index) ==
  WrapI16(WrapU16(CountZerosBefore(content.chars, 1, index)))

\* An FheInt16 result.
ResInt(x) == [kind |-> "Int", b |-> FALSE, u |-> x]

\* shift_count without the count of the zeros before the raw index.
shift_count_no_zeros(r, content, match_options) == 0

shift_count(r, content, match_options) ==
  IF match_options.result = "RawStartIndex" THEN 0
  ELSE WrapI16(CastBool(r.u > 1) * nb_zeros_before(content, r.u))

VisibleIndex(r, content, match_options) ==
  IF r.kind # "Uint" THEN ResPanic
  ELSE ResInt(WrapI16(WrapI16(WrapI16(r.u) - shift_count(r, content, match_options)) - 1))

\* SimpleEngine::find: an FheInt16, or a panic.
find(content, pattern, match_options) ==
  VisibleIndex(find_match(content, pattern, match_options), content, match_options)

\* ------------------------------------------------------- string API
MatchingOptions(sof, eof, result) == [sof |-> sof, eof |-> eof, result |-> result]

contains(s, pattern) == has_match(s, pattern, MatchingOptions(FALSE, FALSE, "Bool"))

starts_with(s, pattern) == has_match(s, pattern, MatchingOptions(TRUE, FALSE, "Bool"))

ends_with(s, pattern) ==
  has_match(reversed(s), ReversedPattern(pattern), MatchingOptions(TRUE, FALSE, "Bool"))

eq(s, other) == has_match(s, EncryptedPattern(other), MatchingOptions(TRUE, TRUE, "Bool"))

find_str(s, pattern) == find(s, pattern, MatchingOptions(FALSE, FALSE, "StartIndex"))

RFindIndex(rev_find, s_len, p_len) ==
  IF rev_find.kind # "Int" THEN ResPanic
  ELSE ResInt(WrapI16(
         WrapI16(CastBool(rev_find.u > -1)
                 * WrapI16(WrapI16(WrapI16(s_len - p_len) - rev_find.u) + 1)) - 1))

rfind(s, pattern) ==
  RFindIndex(find_str(reversed(s), ReversedPattern(pattern)),
             WrapI16(len(s)), WrapI16(PatternLen(pattern)))

\* byte & (cast(!must_zero) * u8::MAX)
MaskByte(byte, must_zero) == BitAnd(byte, (CastBool(~must_zero) * 255) % 256)

ResStr(s) == [kind |-> "Str", b |-> FALSE, u |-> 0, str |-> s]

\* raw_index of strip_helper.
SuffixRawIndex(rev_find, s_len, p_len) ==
  IF rev_find.kind # "Int" THEN ResPanic
  ELSE ResInt(WrapI16(WrapI16(s_len - p_len) - rev_find.u))

raw_index(s, pattern, is_prefix) ==
  IF is_prefix
  THEN find(s, pattern, MatchingOptions(FALSE, FALSE, "RawStartIndex"))
  ELSE SuffixRawIndex(find(reversed(s), ReversedPattern(pattern),
                           MatchingOptions(FALSE, FALSE, "RawStartIndex")),
                      WrapI16(Len(s.chars)), WrapI16(PatternLen(pattern)))

end_index(raw, p_len, is_prefix) ==
  IF is_prefix THEN WrapI16(raw + WrapI16(p_len - 1)) ELSE raw

\* The string strip_helper returns, from raw_index and found.
Stripped(s, raw, found, p_len, is_prefix) ==
  IF raw.kind # "Int" \/ found.kind # "Bool"
  THEN [kind |-> "Panic", b |-> FALSE, u |-> 0, str |-> s]
  ELSE ResStr([chars |-> [k \in 1..Len(s.chars) |->
                            MaskByte(s.chars[k],
                                     found.b /\ (IF is_prefix
                                                 THEN end_index(raw.u, p_len, is_prefix) >= k - 1
                                                 ELSE end_index(raw.u, p_len, is_prefix) <= k - 1))],
               padding |-> IF is_prefix THEN [s.padding EXCEPT !.start = TRUE]
                           ELSE [s.padding EXCEPT !.end = TRUE]])

strip_helper(s, pattern, is_prefix) ==
  Stripped(s, raw_index(s, pattern, is_prefix),
           IF is_prefix THEN starts_with(s, pattern) ELSE ends_with(s, pattern),
           PatternLen(pattern), is_prefix)

\* ------------------------------------------------------- state machine
\* chars, padding: the FheString the caller holds.  pc: "idle", or "answered"
\* while the result of the last call (res) is held.
SeqsUpTo(S, n) == UNION {[1..k -> S] : k \in 0..n}

ClearStrings == SeqsUpTo(Letters, MaxN)

\* The patterns of the queries, up to the renaming of 'a' and 'b' (no
\* operation of the queries tells the two letters apart): they start with 'a'.
Patterns == {p \in SeqsUpTo(Letters, MaxM) : p # <<>> /\ p[1] = 97}

PatternKinds == {"Clear", "Encrypted"}

\* The pattern argument: a clear string, or its encryption with block 0.
MkPattern(kind, p) ==
  IF kind = "Clear" THEN ClearPattern(p) ELSE EncryptedPattern(Encrypt(p, 0))

Cur == FheString(chars, padding)

NoRes ==
  [op |-> "none", pat |-> <<>>, clear |-> FALSE, kind |-> "none", b |-> FALSE,
   i |-> 0, pre |-> FheString(<<>>, NoPadding)]

Answer(op, kind, p, r) ==
  [op |-> op, pat |-> p, clear |-> kind = "Clear", kind |-> r.kind, b |-> r.b,
   i |-> r.u, pre |-> Cur]

Init ==
  \E clear \in ClearStrings, block \in 0..MaxN :
    /\ Len(Encrypt(clear, block).chars) <= MaxN
    /\ chars = Encrypt(clear, block).chars
    /\ padding = Encrypt(clear, block).padding
    /\ pc = "idle"
    /\ res = NoRes

Reversed ==
  /\ pc = "idle"
  /\ chars' = reversed(Cur).chars
  /\ padding' = reversed(Cur).padding
  /\ UNCHANGED <<pc, res>>

Add ==
  /\ pc = "idle"
  /\ \E clear \in ClearStrings, block \in 0..MaxN :
       LET other == Encrypt(clear, block)
       IN /\ Len(chars) + Len(other.chars) <= MaxN
          /\ chars' = Concat(Cur, other).chars
          /\ padding' = Concat(Cur, other).padding
  /\ UNCHANGED <<pc, res>>

Query(op, kind, p, r) ==
  /\ pc = "idle"
  /\ pc' = "answered"
  /\ res' = Answer(op, kind, p, r)
  /\ UNCHANGED <<chars, padding>>

Contains ==
  \E kind \in PatternKinds, p \in Patterns :
    Query("contains", kind, p, contains(Cur, MkPattern(kind, p)))

StartsWith ==
  \E kind \in PatternKinds, p \in Patterns :
    Query("starts_with", kind, p, starts_with(Cur, MkPattern(kind, p)))

EndsWith ==
  \E kind \in PatternKinds, p \in Patterns :
    Query("ends_with", kind, p, ends_with(Cur, MkPattern(kind, p)))

EqOp ==
  \E p \in Patterns :
    Query("eq", "Encrypted", p, eq(Cur, Encrypt(p, 0)))

Find ==
  \E kind \in PatternKinds, p \in Patterns :
    Query("find", kind, p, find_str(Cur, MkPattern(kind, p)))

RFind ==
  \E kind \in PatternKinds, p \in Patterns :
    Query("rfind", kind, p, rfind(Cur, MkPattern(kind, p)))

Strip(op, kind, p, r) ==
  /\ pc = "idle"
  /\ pc' = "answered"
  /\ res' = Answer(op, kind, p, r)
  /\ chars' = r.str.chars
  /\ padding' = r.str.padding

StripPrefix ==
  \E kind \in PatternKinds, p \in Patterns :
    Strip("strip_prefix", kind, p, strip_helper(Cur, MkPattern(kind, p), TRUE))

StripSuffix ==
  \E kind \in PatternKinds, p \in Patterns :
    Strip("strip_suffix", kind, p, strip_helper(Cur, MkPattern(kind, p), FALSE))

\* The caller drops the result and goes on with the string it holds.
Return ==
  /\ pc = "answered"
  /\ pc' = "idle"
  /\ res' = NoRes
  /\ UNCHANGED <<chars, padding>>

Next ==
  \/ Reversed
  \/ Add
  \/ Contains
  \/ StartsWith
  \/ EndsWith
  \/ EqOp
  \/ Find
  \/ RFind
  \/ StripPrefix
  \/ StripSuffix
  \/ Return

Spec == Init /\ [][Next]_vars

\* ------------------------------------------------------- clear strings
\* The std::str results the CLI compares against (main.rs), on byte sequences.
OccursAt(s, p, i) == i + Len(p) <= Len(s) /\ SubSeq(s, i + 1, i + Len(p)) = p

Occurrences(s, p) == {i \in 0..Len(s) : OccursAt(s, p, i)}

StdContains(s, p) == Occurrences(s, p) # {}

StdStartsWith(s, p) == OccursAt(s, p, 0)

StdEndsWith(s, p) == Len(p) <= Len(s) /\ OccursAt(s, p, Len(s) - Len(p))

StdFind(s, p) ==
  IF Occurrences(s, p) = {} THEN -1
  ELSE CHOOSE i \in Occurrences(s, p) : \A j \in Occurrences(s, p) : i <= j

StdRFind(s, p) ==
  IF Occurrences(s, p) = {} THEN -1
  ELSE CHOOSE i \in Occurrences(s, p) : \A j \in Occurrences(s, p) : j <= i

StdStripPrefix(s, p) ==
  IF StdStartsWith(s, p) THEN SubSeq(s, Len(p) + 1, Len(s)) ELSE s

StdStripSuffix(s, p) ==
  IF StdEndsWith(s, p) THEN SubSeq(s, 1, Len(s) - Len(p)) ELSE s

\* Every zero byte of s lies in a region whose Padding flag is set: leading
\* zeros need start, trailing zeros need end, zeros between two non-zero
\* bytes need middle.
Consistent(s) ==
  \A i \in 1..Len(s.chars) :
    s.chars[i] = 0 =>
      \/ s.padding.start /\ \A j \in 1..i : s.chars[j] = 0
      \/ s.padding.end /\ \A j \in i..Len(s.chars) : s.chars[j] = 0
      \/ /\ s.padding.middle
         /\ \E j \in 1..i : s.chars[j] # 0
         /\ \E j \in i..Len(s.chars) : s.chars[j] # 0

NoZero(cs) == \A i \in 1..Len(cs) : cs[i] # 0

Answered(op) == pc = "answered" /\ res.op = op

\* The pattern of the last call, as it was passed.
ResPattern == MkPattern(IF res.clear THEN "Clear" ELSE "Encrypted", res.pat)

\* ------------------------------------------------------- claims
\* The input string of the last call, decrypted.
Visible == Decrypt(res.pre.chars)

PublicN == Len(res.pre.chars)

PublicM == Len(res.pat)

BoolIs(x) == res.kind = "Bool" /\ (res.b <=> x)

IntIs(x) == res.kind = "Int" /\ res.i = x

FlagsAre(a, b, c) == res.pre.padding = [start |-> a, middle |-> b, end |-> c]

\* C1: when N < M, or on eq (sof and eof) with no Padding flag and N # M, the
\* call returns encrypted false, or the index -1, and does not abort.
C1_FastReject ==
  /\ pc = "answered"
  /\ res.op \in {"contains", "starts_with", "ends_with", "eq", "find"}
  /\ \/ PublicN < PublicM
     \/ res.op = "eq" /\ ~has_padding(res.pre) /\ PublicN # PublicM
  => \/ res.kind = "Bool" /\ ~res.b
     \/ res.kind = "Int" /\ res.i = -1

\* C2: eq(A, B) is true exactly when the visible content of A equals B, for
\* every A whose zeros lie where its Padding flags allow and every unpadded B.
C2_EqSound ==
  Answered("eq") /\ Consistent(res.pre) => BoolIs(Visible = res.pat)

\* C3: on unpadded content without zero byte and 1 <= M <= N, contains is true
\* iff the pattern occurs in the content and starts_with iff it is a prefix,
\* for clear and for encrypted patterns.
C3_UnpaddedMatch ==
  /\ pc = "answered"
  /\ res.op \in {"contains", "starts_with"}
  /\ ~has_padding(res.pre)
  /\ NoZero(res.pre.chars)
  /\ 1 <= PublicM
  /\ PublicM <= PublicN
  => BoolIs(IF res.op = "contains" THEN StdContains(res.pre.chars, res.pat)
            ELSE StdStartsWith(res.pre.chars, res.pat))

\* contains answered true for an encrypted pattern of two bytes that occurs in
\* an unpadded content of three bytes, but not at its start.
C3_Witness ==
  /\ Answered("contains")
  /\ ~res.clear
  /\ ~has_padding(res.pre)
  /\ NoZero(res.pre.chars)
  /\ PublicN = 3
  /\ PublicM = 2
  /\ res.kind = "Bool"
  /\ res.b
  /\ ~StdStartsWith(res.pre.chars, res.pat)

\* C4: ends_with is true exactly when the visible content ends with the
\* pattern, for unpadded and end-padded contents and every pattern with
\* 1 <= M <= N, M = 1 included.
C4_EndsWith ==
  /\ Answered("ends_with")
  /\ Consistent(res.pre)
  /\ FlagsAre(FALSE, FALSE, FALSE) \/ FlagsAre(FALSE, FALSE, TRUE)
  /\ 1 <= PublicM
  /\ PublicM <= PublicN
  => BoolIs(StdEndsWith(Visible, res.pat))

\* C5: find is the 0-based index of the first occurrence of the pattern in the
\* visible content, -1 when there is none, for every content whose zeros lie
\* where its Padding flags allow and 1 <= M <= N.
C5_Find ==
  /\ Answered("find")
  /\ Consistent(res.pre)
  /\ 1 <= PublicM
  /\ PublicM <= PublicN
  => IntIs(StdFind(Visible, res.pat))

\* C6: rfind is the 0-based index of the last occurrence of the pattern in the
\* visible content, -1 when there is none, for unpadded and end-padded
\* contents (no zero byte, or only trailing zeros under the end flag) and
\* 1 <= M <= N.
C6_RFind ==
  /\ Answered("rfind")
  /\ Consistent(res.pre)
  /\ FlagsAre(FALSE, FALSE, FALSE) \/ FlagsAre(FALSE, FALSE, TRUE)
  /\ 1 <= PublicM
  /\ PublicM <= PublicN
  => IntIs(StdRFind(Visible, res.pat))

\* rfind answered an index past the first occurrence, on an end-padded
\* content that holds a trailing zero.
C6_Witness ==
  /\ Answered("rfind")
  /\ FlagsAre(FALSE, FALSE, TRUE)
  /\ ~NoZero(res.pre.chars)
  /\ res.kind = "Int"
  /\ res.i >= 1
  /\ StdFind(Visible, res.pat) < res.i

SameSign(f, rf) == f.kind = "Int" /\ rf.kind = "Int" /\ (f.u >= 0 <=> rf.u >= 0)

\* C7: contains is true iff find >= 0 iff rfind >= 0, on the same content and
\* pattern, for every content whose zeros lie where its flags allow.
C7_SearchConsistency ==
  /\ Answered("find")
  /\ Consistent(res.pre)
  /\ 1 <= PublicM
  /\ PublicM <= PublicN
  => /\ res.kind = "Int"
     /\ AsBool(contains(res.pre, ResPattern)).kind = "Bool"
     /\ contains(res.pre, ResPattern).b <=> res.i >= 0
     /\ SameSign(ResInt(res.i), rfind(res.pre, ResPattern))

AnchorsAgree(sw, ew, same_len) ==
  sw.kind = "Bool" /\ ew.kind = "Bool" /\ BoolIs(sw.b /\ ew.b /\ same_len)

\* C8: with no Padding flag on either side, eq equals starts_with AND
\* ends_with AND (len(S) = len(P)), whatever the public lengths.
C8_AnchorComposition ==
  Answered("eq") /\ ~has_padding(res.pre)
  => AnchorsAgree(starts_with(res.pre, ResPattern), ends_with(res.pre, ResPattern),
                  len(res.pre) = len(Encrypt(res.pat, 0)))

\* The contents with the flags and the visible content of s whose zeros sit
\* elsewhere in the regions the flags allow.
Placements(s) ==
  {t \in {FheString(cs, s.padding) : cs \in [1..Len(s.chars) -> Letters \cup {0}]} :
     Decrypt(t.chars) = Decrypt(s.chars) /\ Consistent(t)}

Redo(op, s, pattern) ==
  CASE op = "contains" -> contains(s, pattern)
    [] op = "starts_with" -> starts_with(s, pattern)
    [] op = "ends_with" -> ends_with(s, pattern)
    [] op = "eq" -> has_match(s, pattern, MatchingOptions(TRUE, TRUE, "Bool"))
    [] op = "find" -> find_str(s, pattern)

SameAnswer(r) == r.kind = res.kind /\ r.b = res.b /\ r.u = res.i

\* C9: contains, starts_with, ends_with, eq and find give the same result on
\* any two contents with the same flags and the same visible content.
C9_PaddingTransparency ==
  /\ pc = "answered"
  /\ res.op \in {"contains", "starts_with", "ends_with", "eq", "find"}
  /\ Consistent(res.pre)
  => \A t \in Placements(res.pre) : SameAnswer(Redo(res.op, t, ResPattern))

\* C10: strip_prefix returns the visible content without the prefix p when it
\* starts with p and unchanged otherwise, for every content whose zeros lie
\* where its flags allow and 1 <= M <= N.
C10_StripPrefix ==
  /\ Answered("strip_prefix")
  /\ Consistent(res.pre)
  /\ 1 <= PublicM
  /\ PublicM <= PublicN
  => res.kind = "Str" /\ Decrypt(chars) = StdStripPrefix(Visible, res.pat)

\* C11: strip_suffix returns the visible content without the suffix p when it
\* ends with p and unchanged otherwise, for unpadded and end-padded contents
\* (no zero byte, or only trailing zeros under the end flag) and 1 <= M <= N.
C11_StripSuffix ==
  /\ Answered("strip_suffix")
  /\ Consistent(res.pre)
  /\ FlagsAre(FALSE, FALSE, FALSE) \/ FlagsAre(FALSE, FALSE, TRUE)
  /\ 1 <= PublicM
  /\ PublicM <= PublicN
  => res.kind = "Str" /\ Decrypt(chars) = StdStripSuffix(Visible, res.pat)

\* ------------------------------------------------------- engine calls
\* The keys of the engine's cache when find_match returns or aborts, on a
\* fresh engine (SimpleEngine::new leaves the cache empty): the test on the
\* pattern's padding comes before build_execution_plan.
cache_after(content, pattern, match_options) ==
  IF PatternHasPadding(pattern) THEN {}
  ELSE build_execution_plan(content, pattern, match_options).cache

\* The pattern arguments of the engine: clear strings, and encryptions under
\* every padding block.
PatternArgs ==
  {ClearPattern(p) : p \in Patterns}
    \cup {EncryptedPattern(Encrypt(p, block)) : p \in Patterns, block \in 0..MaxN}

ResultKinds == {"Bool", "StartIndex", "RawStartIndex"}

Called(pattern, match_options, r, nodes) ==
  [op |-> "engine", pattern |-> pattern, options |-> match_options, kind |-> r.kind,
   b |-> r.b, i |-> r.u, pre |-> Cur, nodes |-> nodes]

EngineCall(pattern, match_options, r) ==
  /\ pc = "idle"
  /\ pc' = "answered"
  /\ res' = Called(pattern, match_options, r, cache_after(Cur, pattern, match_options))
  /\ UNCHANGED <<chars, padding>>

\* SimpleEngine::has_match, with any options whose result is Bool.
HasMatch ==
  \E pattern \in PatternArgs, sof \in BOOLEAN, eof \in BOOLEAN :
    EngineCall(pattern, MatchingOptions(sof, eof, "Bool"),
               has_match(Cur, pattern, MatchingOptions(sof, eof, "Bool")))

\* SimpleEngine::find, with any options whose result is an index.
EngineFind ==
  \E pattern \in PatternArgs, sof \in BOOLEAN, eof \in BOOLEAN,
     result \in ResultKinds \ {"Bool"} :
    EngineCall(pattern, MatchingOptions(sof, eof, result),
               find(Cur, pattern, MatchingOptions(sof, eof, result)))

EngineNext ==
  \/ Reversed
  \/ HasMatch
  \/ EngineFind
  \/ Return

EngineSpec == Init /\ [][EngineNext]_vars

\* C12: a call whose pattern carries a Padding flag aborts with no node in
\* the plan cache (so nothing was evaluated), for every content and every
\* MatchingOptions; a call with a clear pattern that fits the content is not
\* rejected: it builds its plan and returns a value.
C12_PaddedPatternRejected ==
  pc = "answered" /\ res.op = "engine"
  => /\ res.pattern.kind = "Encrypted" /\ has_padding(res.pattern)
        => res.kind = "Panic" /\ res.nodes = {}
     /\ res.pattern.kind = "Clear" /\ PatternLen(res.pattern) <= Len(res.pre.chars)
        => res.kind # "Panic" /\ res.nodes # {}

\* An encrypted pattern of one byte padded to two slots, not longer than the
\* content, was rejected with an empty cache.
C12_Witness ==
  /\ pc = "answered"
  /\ res.op = "engine"
  /\ res.pattern.kind = "Encrypted"
  /\ has_padding(res.pattern)
  /\ PatternLen(res.pattern) = 2
  /\ Len(res.pre.chars) >= 2
  /\ res.kind = "Panic"
  /\ res.nodes = {}

\* ------------------------------------------------------- transforms
ASCII_WHITESPACES == {9, 10, 11, 13, 32}

is_whitespace(byte) == \E w \in ASCII_WHITESPACES : byte = w

\* trim_helper with prev_zeroed following the zero bytes of the input.
RECURSIVE trim_helper_prev_is_zero(_, _)
trim_helper_prev_is_zero(bytes, prev_zeroed) ==
  IF bytes = <<>> THEN <<>>
  ELSE <<MaskByte(Head(bytes), prev_zeroed /\ (is_whitespace(Head(bytes)) \/ Head(bytes) = 0))>>
         \o trim_helper_prev_is_zero(Tail(bytes), Head(bytes) = 0)

\* trim_helper on the bytes in iteration order, prev_zeroed being the running
\* flag (true at the first byte).
RECURSIVE trim_helper(_, _)
trim_helper(bytes, prev_zeroed) ==
  IF bytes = <<>> THEN <<>>
  ELSE <<MaskByte(Head(bytes), prev_zeroed /\ (is_whitespace(Head(bytes)) \/ Head(bytes) = 0))>>
         \o trim_helper(Tail(bytes),
                        prev_zeroed /\ (is_whitespace(Head(bytes)) \/ Head(bytes) = 0))

trim_start(s) ==
  FheString(trim_helper(s.chars, TRUE), [s.padding EXCEPT !.start = TRUE])

\* trim_end sets the start flag, as trim_start does.
trim_end(s) ==
  FheString(Rev(trim_helper(Rev(s.chars), TRUE)), [s.padding EXCEPT !.start = TRUE])

trim(s) == trim_end(trim_start(s))

UP_LOW_DISTANCE == 32

\* to_upper that takes the byte 96 for a lowercase letter.
to_upper_from_96(byte) ==
  (byte - CastBool(byte > 95 /\ byte < 123) * UP_LOW_DISTANCE) % 256

to_upper(byte) == (byte - CastBool(byte > 96 /\ byte < 123) * UP_LOW_DISTANCE) % 256

to_lower(byte) == (byte + CastBool(byte > 64 /\ byte < 91) * UP_LOW_DISTANCE) % 256

to_uppercase(s) ==
  FheString([k \in 1..Len(s.chars) |-> to_upper(s.chars[k])], s.padding)

to_lowercase(s) ==
  FheString([k \in 1..Len(s.chars) |-> to_lower(s.chars[k])], s.padding)

\* The chars of repeat after the copies left to make: rem is the encrypted
\* counter (a u8), left the iterations of the loop still to run.
\* The counter decremented on every iteration, zero or not.
rem_always_decremented(rem) == (rem - 1) % 256

\* rem = rem - cast_from(rem.gt(0)), on a u8.
rem_after(rem) == (rem - CastBool(rem > 0)) % 256

RECURSIVE RepeatChars(_, _, _)
RepeatChars(cs, rem, left) ==
  IF left = 0 THEN <<>>
  ELSE [k \in 1..Len(cs) |-> (cs[k] * CastBool(rem > 0)) % 256]
         \o RepeatChars(cs, rem_after(rem), left - 1)

\* repeat(n) with n = MaxedFheUint8 {val, max_val}.
repeat(s, val, max_val) ==
  FheString(RepeatChars(s.chars, val, max_val),
            [s.padding EXCEPT !.middle = s.padding.start \/ s.padding.end])

RECURSIVE RepeatClearChars(_, _)
RepeatClearChars(cs, n) == IF n = 0 THEN <<>> ELSE cs \o RepeatClearChars(cs, n - 1)

repeat_clear(s, n) ==
  FheString(RepeatClearChars(s.chars, n),
            [s.padding EXCEPT !.middle = n > 0 /\ (s.padding.start \/ s.padding.end)])

is_empty(s) == IF s.chars = <<>> THEN ResBool(TRUE) ELSE ResBool(s.chars[1] = 0)

\* ------------------------------------------------------- transform calls
\* The longest vector of slots, and the largest repetition count.
MaxT == 3

MaxRep == 2

\* Form feed, space, 'A', 'a'.
TLetters == {12, 32, 65, 97}

TStrings == SeqsUpTo(TLetters, MaxT)

EmptyStr == FheString(<<>>, NoPadding)

\* The value a transform returned: res.pre is the string it was called on,
\* res.other the second operand of a concatenation.
Done(op, other) ==
  [op |-> op, pat |-> <<>>, clear |-> FALSE, kind |-> "Str", b |-> FALSE, i |-> 0,
   pre |-> Cur, other |-> other]

Transform(op, other, r) ==
  /\ pc = "idle"
  /\ pc' = "answered"
  /\ res' = Done(op, other)
  /\ chars' = r.chars
  /\ padding' = r.padding

TransformInit ==
  \E clear \in TStrings, block \in 0..MaxT :
    /\ Len(Encrypt(clear, block).chars) <= MaxT
    /\ chars = Encrypt(clear, block).chars
    /\ padding = Encrypt(clear, block).padding
    /\ pc = "idle"
    /\ res = NoRes

TrimStart == Transform("trim_start", EmptyStr, trim_start(Cur))

TrimEnd == Transform("trim_end", EmptyStr, trim_end(Cur))

Trim == Transform("trim", EmptyStr, trim(Cur))

ToUppercase == Transform("to_uppercase", EmptyStr, to_uppercase(Cur))

ToLowercase == Transform("to_lowercase", EmptyStr, to_lowercase(Cur))

Repeat ==
  \E val \in 0..MaxRep, max_val \in 0..MaxRep :
    /\ Len(chars) * max_val <= MaxT
    /\ Transform("repeat", EmptyStr, repeat(Cur, val, max_val))

RepeatClear ==
  \E n \in 0..MaxRep :
    /\ Len(chars) * n <= MaxT
    /\ Transform("repeat_clear", EmptyStr, repeat_clear(Cur, n))

Concatenation ==
  \E clear \in TStrings, block \in 0..MaxT :
    /\ Len(chars) + Len(Encrypt(clear, block).chars) <= MaxT
    /\ Transform("concatenation", Encrypt(clear, block), Concat(Cur, Encrypt(clear, block)))

ReversedCall == Transform("reversed", EmptyStr, reversed(Cur))

IsEmpty ==
  /\ pc = "idle"
  /\ pc' = "answered"
  /\ res' = [Done("is_empty", EmptyStr) EXCEPT !.kind = "Bool", !.b = is_empty(Cur).b]
  /\ UNCHANGED <<chars, padding>>

TransformNext ==
  \/ TrimStart
  \/ TrimEnd
  \/ Trim
  \/ ToUppercase
  \/ ToLowercase
  \/ Repeat
  \/ RepeatClear
  \/ Concatenation
  \/ ReversedCall
  \/ StripPrefix
  \/ StripSuffix
  \/ IsEmpty
  \/ Return

TransformSpec == TransformInit /\ [][TransformNext]_vars

\* C13: every zero byte of a value obtained by encrypt followed by transforms
\* lies in a region whose Padding flag is set.
C13_ZeroPlacement == Consistent(Cur)
\* The flags of the value a transform returned keep every flag of its input.
Monotone(before, after) ==
  /\ before.start => after.start
  /\ before.middle => after.middle
  /\ before.end => after.end

UnaryTransforms ==
  {"trim_start", "trim_end", "trim", "to_uppercase", "to_lowercase", "repeat",
   "repeat_clear", "strip_prefix", "strip_suffix"}

\* C14: no transform clears a flag that was set on its input (for a
\* concatenation: the start of the left operand, the end of the right one,
\* and every flag that ends up between the two contents, which is middle);
\* reversed swaps start with end and keeps middle.
C14_FlagsMonotone ==
  pc = "answered" /\ res.kind # "Panic"
  => /\ res.op \in UnaryTransforms => Monotone(res.pre.padding, padding)
     /\ res.op = "concatenation"
        => /\ res.pre.padding.start => padding.start
           /\ res.other.padding.end => padding.end
           /\ \/ res.pre.padding.middle
              \/ res.pre.padding.end
              \/ res.other.padding.start
              \/ res.other.padding.middle
              => padding.middle
     /\ res.op = "reversed"
        => padding = [start |-> res.pre.padding.end, middle |-> res.pre.padding.middle,
                      end |-> res.pre.padding.start]

\* C17: is_empty is true exactly when the visible content is empty, for
\* every value reachable from encrypt by the transforms whose zeros lie where
\* its flags allow.
C17_IsEmpty ==
  Answered("is_empty") /\ Consistent(res.pre) => BoolIs(Visible = <<>>)

\* The whitespace of str::trim_start, trim_end and trim within ASCII.
StdWhitespace == {9, 10, 11, 12, 13, 32}

RECURSIVE StdTrimStart(_)
StdTrimStart(s) ==
  IF s # <<>> /\ Head(s) \in StdWhitespace THEN StdTrimStart(Tail(s)) ELSE s

StdTrimEnd(s) == Rev(StdTrimStart(Rev(s)))

StdTrim(s) == StdTrimEnd(StdTrimStart(s))

\* The slots of cs that hold a byte which is neither whitespace nor zero.
Solid(cs) == {k \in 1..Len(cs) : cs[k] # 0 /\ cs[k] \notin StdWhitespace}

\* The slots from the first solid byte on (from_start), up to the last one
\* (from_end), hold in `after` the byte they held in `before`.
Untouched(before, after, from_start, from_end) ==
  \A k \in 1..Len(before) :
    /\ from_start => (\E j \in Solid(before) : j <= k)
    /\ from_end => (\E j \in Solid(before) : k <= j)
    => after[k] = before[k]

\* C18: trim_start, trim_end and trim return the str::trim_start, trim_end
\* and trim of the visible content, and alter no byte after (resp. before,
\* resp. outside) the first (resp. last) byte that is neither whitespace nor
\* zero.
C18_Trim ==
  /\ Answered("trim_start")
     => /\ Decrypt(chars) = StdTrimStart(Visible)
        /\ Untouched(res.pre.chars, chars, TRUE, FALSE)
  /\ Answered("trim_end")
     => /\ Decrypt(chars) = StdTrimEnd(Visible)
        /\ Untouched(res.pre.chars, chars, FALSE, TRUE)
  /\ Answered("trim")
     => /\ Decrypt(chars) = StdTrim(Visible)
        /\ Untouched(res.pre.chars, chars, TRUE, TRUE)

\* The trims alone, on encrypted, concatenated and reversed strings.
TrimNext ==
  \/ TrimStart
  \/ TrimEnd
  \/ Trim
  \/ Concatenation
  \/ ReversedCall
  \/ Return

TrimSpec == TransformInit /\ [][TrimNext]_vars

\* C19: trim of the value trim returned has the same bytes, and trim_start
\* of trim_end has the bytes of trim_end of trim_start.
C19_TrimIdempotent ==
  Answered("trim")
  => /\ trim(Cur).chars = chars
     /\ trim_start(trim_end(res.pre)).chars = trim_end(trim_start(res.pre)).chars

\* trim zeroed a leading and a trailing whitespace around a kept byte.
C19_Witness ==
  /\ Answered("trim")
  /\ Len(chars) = 3
  /\ is_whitespace(res.pre.chars[1])
  /\ is_whitespace(res.pre.chars[3])
  /\ chars[1] = 0
  /\ chars[2] # 0
  /\ chars[3] = 0

\* ------------------------------------------------------- encrypt calls
\* The longest clear string, and the largest padding block of the key.
MaxClear == 4

MaxBlock == 3

\* The chars of the clear strings: NUL, 'a', and one outside ASCII.
InputChars == {0, 97, 233}

is_ascii(clear_str) == \A k \in 1..Len(clear_str) : clear_str[k] < 128

\* contains('\0') that overlooks the trailing NUL chars.
contains_inner_nul(clear_str) ==
  \E k \in 1..Len(clear_str) :
    clear_str[k] = 0 /\ \E j \in k..Len(clear_str) : clear_str[j] # 0

contains_nul(clear_str) == \E k \in 1..Len(clear_str) : clear_str[k] = 0

\* StringClientKey::encrypt with its two assertions: a panic, or the string.
encrypt(clear_str, block) ==
  IF ~is_ascii(clear_str) \/ contains_nul(clear_str)
  THEN [kind |-> "Panic", str |-> EmptyStr]
  ELSE [kind |-> "Str", str |-> Encrypt(clear_str, block)]

\* No ciphertext is held before the call.
EncryptInit ==
  /\ chars = <<>>
  /\ padding = NoPadding
  /\ pc = "idle"
  /\ res = NoRes

Encrypted(clear_str, block, r) ==
  /\ pc = "idle"
  /\ pc' = "answered"
  /\ res' = [op |-> "encrypt", input |-> clear_str, block |-> block, kind |-> r.kind]
  /\ chars' = r.str.chars
  /\ padding' = r.str.padding

EncryptCall ==
  \E clear_str \in SeqsUpTo(InputChars, MaxClear), block \in 0..MaxBlock :
    Encrypted(clear_str, block, encrypt(clear_str, block))

\* The ciphertext is dropped.
Drop ==
  /\ pc = "answered"
  /\ pc' = "idle"
  /\ res' = NoRes
  /\ chars' = <<>>
  /\ padding' = NoPadding

EncryptNext ==
  \/ EncryptCall
  \/ Drop

EncryptSpec == EncryptInit /\ [][EncryptNext]_vars

\* The smallest multiple of block that is >= n, and block when n < block.
PaddedLen(n, block) ==
  IF n < block THEN block
  ELSE CHOOSE m \in n..(n + block) : m % block = 0 /\ m - n < block

\* C15: encrypt with a padding block P > 0 returns a ciphertext whose length
\* is the smallest multiple of P that is >= the clear length (P when the
\* clear string is shorter than P), with Padding {false, false, true}.
C15_EncryptLength ==
  Answered("encrypt") /\ res.kind = "Str" /\ res.block > 0
  => /\ Len(chars) = PaddedLen(Len(res.input), res.block)
     /\ padding = [start |-> FALSE, middle |-> FALSE, end |-> TRUE]

\* C16, as stated: encrypt aborts exactly on the inputs that hold a char
\* outside ASCII or a NUL at a non-trailing position; an input whose only
\* NULs are trailing is accepted.
C16_TrailingNulAccepted ==
  Answered("encrypt")
  => (res.kind = "Panic" <=> ~is_ascii(res.input) \/ contains_inner_nul(res.input))

\* C16, amended: encrypt aborts, with no ciphertext produced, exactly on the
\* inputs that hold a char outside ASCII or a NUL at any position, trailing
\* included.
C16_EncryptRejects ==
  Answered("encrypt")
  => /\ res.kind = "Panic" <=> ~is_ascii(res.input) \/ (\E k \in 1..Len(res.input) : res.input[k] = 0)
     /\ res.kind = "Panic" => chars = <<>>
     /\ res.kind = "Str" => Len(chars) >= Len(res.input)

\* encrypt aborted on an ASCII input whose only NUL is its last char.
C16_Witness ==
  /\ Answered("encrypt")
  /\ Len(res.input) = 2
  /\ res.input[1] = 97
  /\ res.input[2] = 0
  /\ res.kind = "Panic"
  /\ chars = <<>>

\* ------------------------------------------------------- case calls
\* The longest clear string of the case transforms.
MaxCase == 2

\* The bytes around the two ASCII letter ranges: '@', 'A', 'Z', '[', '`', 'a',
\* 'z', '{'.
CaseBytes == {64, 65, 90, 91, 96, 97, 122, 123}

CaseInit ==
  \E clear \in SeqsUpTo(CaseBytes, MaxCase), block \in 0..MaxCase :
    /\ Len(Encrypt(clear, block).chars) <= MaxCase
    /\ chars = Encrypt(clear, block).chars
    /\ padding = Encrypt(clear, block).padding
    /\ pc = "idle"
    /\ res = NoRes

CaseNext ==
  \/ ToUppercase
  \/ ToLowercase
  \/ ReversedCall
  \/ Return

CaseSpec == CaseInit /\ [][CaseNext]_vars

\* Every byte of `after` is the byte of `before`, moved by `distance` when it
\* lies in lo..hi (as integers: no wrap-around).
Shifted(before, after, lo, hi, distance) ==
  /\ Len(after) = Len(before)
  /\ \A k \in 1..Len(before) :
       after[k] = IF before[k] \in lo..hi THEN before[k] + distance ELSE before[k]

\* C20: to_uppercase subtracts 32 from exactly the bytes in 97..122 and
\* to_lowercase adds 32 to exactly the bytes in 65..90; the other bytes, the
\* zero included, and the flags are unchanged, and applying the function to
\* its result changes nothing.
C20_CaseFold ==
  /\ Answered("to_uppercase")
     => /\ Shifted(res.pre.chars, chars, 97, 122, -32)
        /\ padding = res.pre.padding
        /\ to_uppercase(Cur) = Cur
  /\ Answered("to_lowercase")
     => /\ Shifted(res.pre.chars, chars, 65, 90, 32)
        /\ padding = res.pre.padding
        /\ to_lowercase(Cur) = Cur

\* to_uppercase moved 'z' and kept the padding zero after it.
C20_Witness ==
  /\ Answered("to_uppercase")
  /\ res.pre.chars = <<122, 0>>
  /\ chars = <<90, 0>>
  /\ res.pre.padding.end

\* ------------------------------------------------------- repeat calls
\* The encrypted counter rem at the start of each iteration of the loop of
\* repeat, followed by its value when the loop ends.
RECURSIVE RepeatRems(_, _)
RepeatRems(rem, left) ==
  IF left = 0 THEN <<rem>> ELSE <<rem>> \o RepeatRems(rem_after(rem), left - 1)

\* repeat(MaxedFheUint8 {val, max_val}) on the current string; the call
\* records its argument and the values the counter took.
RepeatCall ==
  \E val \in 0..MaxRep, max_val \in 0..MaxRep :
    /\ pc = "idle"
    /\ Len(chars) * max_val <= MaxT
    /\ pc' = "answered"
    /\ res' = [op |-> "repeat", pre |-> Cur, val |-> val, max_val |-> max_val,
               rems |-> RepeatRems(val, max_val)]
    /\ chars' = repeat(Cur, val, max_val).chars
    /\ padding' = repeat(Cur, val, max_val).padding

\* The strings repeat is called on: an encrypted string, or the concatenation
\* of two, so that zeros stand at the end and in the middle; reversed moves
\* them to the start.
RepeatInit ==
  \/ TransformInit
  \/ \E clear \in TStrings, block \in 0..MaxT, other \in TStrings, pad \in 0..MaxT :
       /\ Len(Encrypt(clear, block).chars) + Len(Encrypt(other, pad).chars) <= MaxT
       /\ chars = Concat(Encrypt(clear, block), Encrypt(other, pad)).chars
       /\ padding = Concat(Encrypt(clear, block), Encrypt(other, pad)).padding
       /\ pc = "idle"
       /\ res = NoRes

RepeatNext ==
  \/ RepeatCall
  \/ ReversedCall
  \/ Return

RepeatSpec == RepeatInit /\ [][RepeatNext]_vars

\* Copy k (0-based) of a result of repeat on a string of n slots.
CopyOf(cs, k, n) == SubSeq(cs, k * n + 1, (k + 1) * n)

\* C21: repeat(S, n, max_n) with encrypted n returns max_n * N slots in which
\* copy k is S when k < n and all zeros otherwise; it decrypts to s repeated
\* min(n, max_n) times, to the empty string for n = 0, and the counter rem
\* never goes below 0 (no decrement wraps around).
C21_Repeat ==
  (pc = "answered" /\ res.op = "repeat") =>
    /\ Len(chars) = res.max_val * Len(res.pre.chars)
    /\ \A k \in 0..(res.max_val - 1) :
         CopyOf(chars, k, Len(res.pre.chars)) =
           IF k < res.val THEN res.pre.chars
           ELSE [j \in 1..Len(res.pre.chars) |-> 0]
    /\ Decrypt(chars) =
         RepeatClearChars(Decrypt(res.pre.chars),
                          IF res.val < res.max_val THEN res.val ELSE res.max_val)
    /\ (res.val = 0 => Decrypt(chars) = <<>>)
    /\ \A k \in 1..Len(res.rems) :
         res.rems[k] = (IF res.val > k - 1 THEN res.val - (k - 1) ELSE 0)

\* repeat with n = 1 and max_n = 2 on 'a': one copy, then a copy of zeros.
C21_Witness ==
  /\ pc = "answered"
  /\ res.op = "repeat"
  /\ res.val = 1
  /\ res.max_val = 2
  /\ res.pre.chars = <<97>>
  /\ chars = <<97, 0>>

\* ------------------------------------------------------- worker threads
\* The threads of the pool, the calling thread included (main passes 64), and
\* the most tasks one parallel iterator dispatches.
NumThreads == 4

MaxTasks == 2

\* Thread 0 is the calling thread (use_current_thread), 1.. are spawned.
Workers == 1..(NumThreads - 1)

\* A spawned thread that enters the work loop at once.
spawned_thread_runs_at_once == <<"run">>

\* The closure given to std::thread::spawn by the spawn handler.
spawned_thread_body == <<"set_server_key", "run">>

\* The state of the threads: worker[i] is 0 before thread i is spawned, else
\* the step of its body it is at; key holds the threads whose thread-local
\* server key is installed; pending counts the tasks of the running parallel
\* iterator not yet taken; ran and unkeyed record the threads that executed a
\* task, and those that did so with no key installed.
ThreadInit ==
  /\ chars = <<>>
  /\ padding = NoPadding
  /\ pc = "build_global"
  /\ res = [worker |-> [i \in Workers |-> 0], key |-> {}, pending |-> 0,
            ran |-> {}, unkeyed |-> {}]

\* build_global calls the spawn handler for the next thread of the pool.
SpawnHandler ==
  /\ pc = "build_global"
  /\ NumThreads > 1
  /\ \E i \in Workers :
       /\ res.worker[i] = 0
       /\ \A j \in Workers : j < i => res.worker[j] > 0
       /\ res' = [res EXCEPT !.worker[i] = 1]
  /\ UNCHANGED <<chars, padding, pc>>

\* build_global returns (or was skipped for num_threads <= 1).
PoolBuilt ==
  /\ pc = "build_global"
  /\ NumThreads > 1 => \A i \in Workers : res.worker[i] > 0
  /\ pc' = "set_server_key"
  /\ UNCHANGED <<chars, padding, res>>

\* A spawned thread executes set_server_key(server_key.clone()).
WorkerSetServerKey ==
  \E i \in Workers :
    /\ res.worker[i] \in 1..Len(spawned_thread_body)
    /\ spawned_thread_body[res.worker[i]] = "set_server_key"
    /\ res' = [res EXCEPT !.worker[i] = @ + 1, !.key = @ \cup {i}]
    /\ UNCHANGED <<chars, padding, pc>>

\* The calling thread executes set_server_key after the pool is built.
MainSetServerKey ==
  /\ pc = "set_server_key"
  /\ pc' = "ready"
  /\ res' = [res EXCEPT !.key = @ \cup {0}]
  /\ UNCHANGED <<chars, padding>>

\* The calling thread enters a parallel iterator of the library.
ParIter ==
  /\ pc = "ready"
  /\ \E n \in 1..MaxTasks : res' = [res EXCEPT !.pending = n]
  /\ pc' = "par_iter"
  /\ UNCHANGED <<chars, padding>>

TaskRunBy(t) ==
  res' = [res EXCEPT !.pending = @ - 1, !.ran = @ \cup {t},
                     !.unkeyed = IF t \in res.key THEN @ ELSE @ \cup {t}]

\* A spawned thread inside thread.run() takes a task.
WorkerTask ==
  /\ res.pending > 0
  /\ \E i \in Workers :
       /\ res.worker[i] \in 1..Len(spawned_thread_body)
       /\ spawned_thread_body[res.worker[i]] = "run"
       /\ TaskRunBy(i)
  /\ UNCHANGED <<chars, padding, pc>>

\* The calling thread, a thread of the pool while it waits in the parallel
\* iterator, takes a task.
MainTask ==
  /\ pc = "par_iter"
  /\ res.pending > 0
  /\ TaskRunBy(0)
  /\ UNCHANGED <<chars, padding, pc>>

\* The parallel iterator returns when all its tasks were run.
ParIterDone ==
  /\ pc = "par_iter"
  /\ res.pending = 0
  /\ pc' = "ready"
  /\ UNCHANGED <<chars, padding, res>>

ThreadNext ==
  \/ SpawnHandler
  \/ PoolBuilt
  \/ WorkerSetServerKey
  \/ MainSetServerKey
  \/ ParIter
  \/ WorkerTask
  \/ MainTask
  \/ ParIterDone

ThreadSpec == ThreadInit /\ [][ThreadNext]_vars

\* C22: on every thread of the pool and on the calling thread,
\* set_server_key has completed before the thread executes any task: no task
\* runs on a thread whose thread-local server key is not installed.
C22_ServerKeyInstalled ==
  /\ res.unkeyed = {}
  /\ res.ran \subseteq res.key
  /\ res.pending > 0 => 0 \in res.key

\* Every thread of the pool has run a task.
C22_Witness ==
  /\ res.ran = 0..(NumThreads - 1)
  /\ pc = "ready"

\* ------------------------------------------------------- the engine, task by task
\* The engine after SimpleEngine::new(): cache maps an execution to its slot
\* (Option<FheResult>), pm_cache a combinator to its PatternMatch.
NewEngine == [cache |-> <<>>, pm_cache |-> <<>>]

IsSome(r) == r.kind \in {"Bool", "Uint"}

\* let root = ..; the tree over the start positions 0..max_start.
RootTree(max_start, match_options) ==
  build_bitwise_execution_tree(
    build_leaves(0, max_start, PidIndex(0), op_type_of(match_options)),
    op_type_of(match_options))

\* The worklist loop run on the cache and the pm_cache the engine holds.
PlanOn(engine, root, max_start, content, pattern, match_options) ==
  PlanOf(ExpandAll([cache |-> insert_execution_tree(DOMAIN engine.cache, root),
                    pm_cache |-> engine.pm_cache, panic |-> ""],
                   [i \in 1..(max_start + 1) |-> <<i - 1, 0>>],
                   content, pattern, match_options),
         root.op)

\* build_execution_plan as a method of an engine: the executions are added
\* to the ones self.cache and self.pm_cache hold already.
build_execution_plan_on(engine, content, pattern, match_options) ==
  IF ~match_options.sof /\ Len(content.chars) < PatternLen(pattern)
  THEN [cache |-> DOMAIN engine.cache, pm_cache |-> engine.pm_cache,
        panic |-> "attempt to subtract with overflow", final_op |-> PidZero]
  ELSE PlanOn(engine,
              RootTree(IF match_options.sof THEN 0
                       ELSE Len(content.chars) - PatternLen(pattern), match_options),
              IF match_options.sof THEN 0 ELSE Len(content.chars) - PatternLen(pattern),
              content, pattern, match_options)

\* The threads of the pool that can hold a computed result at the same time.
MaxInFlight == 2

\* No task has written the slot.
NoWriter == PidZero

\* The executions consume_pattern stores with cache.insert(.., None): p_eq,
\* main_match and the ANDs around it.  insert on a key the map holds already
\* replaces its value, so the slot of such a key is None again.  The nodes of
\* a zero range go through insert_execution_tree, which skips a key the map
\* holds.
consume_pattern_inserts(c_pos, remain_c, p_pos, remain_p, p_id, match_options, pad) ==
  {ExEq(c_pos, p_id), main_match(c_pos, p_pos, remain_p, p_id),
   consume_pattern({}, c_pos, remain_c, p_pos, remain_p, p_id, match_options, pad).ex}
  \cup (IF /\ c_pos > 0 /\ p_pos = 0 /\ match_options.sof /\ pad.start
           /\ remain_c > 1 /\ remain_p = 1 /\ match_options.eof /\ pad.end
        THEN {ExAnd(insert_zero_range({}, 0, c_pos - 1).ex,
                    main_match(c_pos, p_pos, remain_p, p_id))}
        ELSE {})

\* The keys one iteration of the worklist loop stores with insert(.., None)
\* for the candidate (c_pos, p_pos): both branches, their Or, the PatternMatch.
ExpansionInserts(l, r, c_pos, remain_c, p_pos, remain_p, pattern, match_options, pad) ==
  (IF l.some
   THEN consume_pattern_inserts(c_pos, remain_c, p_pos, remain_p,
                                p_id_at(pattern, p_pos), match_options, pad)
   ELSE {})
  \cup (IF r.some
        THEN consume_pattern_inserts(c_pos, remain_c, p_pos, remain_p, PidZero,
                                     match_options, pad)
        ELSE {})
  \cup {BranchExecution(l, r), ExPatternMatch(c_pos, p_pos)}

InsertedNone(c_pos, remain_c, p_pos, remain_p, pattern, match_options, pad) ==
  ExpansionInserts(
    maybe_l_res({}, c_pos, remain_c, p_pos, remain_p, pattern, match_options, pad),
    maybe_r_res({}, c_pos, remain_c, p_pos, remain_p, match_options, pad),
    c_pos, remain_c, p_pos, remain_p, pattern, match_options, pad)

\* The keys whose slot build_execution_plan set to None on an engine that
\* held them: the ones stored by the candidates it expanded, which are the
\* PatternMatch keys the engine did not hold before.
ResetKeys(plan, engine, content, pattern, match_options) ==
  UNION {InsertedNone(pm.c_pos, Len(content.chars) - pm.c_pos, pm.p_pos,
                      PatternLen(pattern) - pm.p_pos, pattern, match_options,
                      content.padding) :
           pm \in {e \in plan.cache \ DOMAIN engine.cache : e.op = "PatternMatch"}}

\* self.cache when build_execution_plan returns or aborts: a key the engine
\* held and the build did not store again keeps its slot, every other slot
\* is None.
SlotsAfterBuild(plan, engine, reset) ==
  [k \in plan.cache |->
     IF k \in DOMAIN engine.cache /\ k \notin reset THEN engine.cache[k] ELSE ResNone]

\* find_match when its first wave begins: every key of the cache is in
\* remaining_ops.  task is the position of each task of the wave, held the
\* new_res it computed; writer, over and twice record which task filled a
\* slot, the slots written while Some, and the executions computed more than
\* once.
Begun(plan, engine, pattern, match_options) ==
  [pattern |-> pattern, options |-> match_options, final_op |-> plan.final_op,
   cache |-> SlotsAfterBuild(plan, engine,
                             ResetKeys(plan, engine, Cur, pattern, match_options)),
   pm_cache |-> plan.pm_cache,
   remaining_ops |-> plan.cache,
   prev_len |-> Cardinality(plan.cache),
   task |-> [e \in plan.cache |-> "todo"],
   held |-> [e \in plan.cache |-> ResNone],
   wave |-> 1,
   writer |-> [k \in plan.cache |-> NoWriter],
   over |-> {}, computed |-> {}, twice |-> {},
   result |-> ResNone, panic |-> ""]

\* find_match that aborted before its first wave; the engine holds what the
\* plan construction stored before the abort.
Aborted(engine, pattern, match_options, reason) ==
  [pattern |-> pattern, options |-> match_options, final_op |-> PidZero,
   cache |-> engine.cache, pm_cache |-> engine.pm_cache,
   remaining_ops |-> {}, prev_len |-> 0,
   task |-> <<>>, held |-> <<>>, wave |-> 0,
   writer |-> [k \in DOMAIN engine.cache |-> NoWriter],
   over |-> {}, computed |-> {}, twice |-> {},
   result |-> ResPanic, panic |-> reason]

\* find_match up to the start of the first wave, on the engine `engine`.
Entered(plan, engine, pattern, match_options) ==
  IF plan.panic # ""
  THEN /\ pc' = "aborted"
       /\ res' = Aborted([cache |-> SlotsAfterBuild(plan, engine,
                                       ResetKeys(plan, engine, Cur, pattern,
                                                 match_options)),
                          pm_cache |-> plan.pm_cache],
                         pattern, match_options, plan.panic)
  ELSE /\ pc' = "wave"
       /\ res' = Begun(plan, engine, pattern, match_options)

FindMatchOn(engine, pattern, match_options) ==
  /\ IF PatternHasPadding(pattern)
     THEN /\ pc' = "aborted"
          /\ res' = Aborted(engine, pattern, match_options,
                            "Padding not supported for the pattern.")
     ELSE Entered(build_execution_plan_on(engine, Cur, pattern, match_options),
                  engine, pattern, match_options)
  /\ UNCHANGED <<chars, padding>>

\* A task that never finds its slot filled.
never_computed(cache, execution) == FALSE

\* cache.get(execution).unwrap().is_some(), the early return of a task.
already_computed(cache, execution) == IsSome(cache[execution])

InFlight(task) == {e \in DOMAIN task : task[e] \in {"computed", "inserted"}}

\* The start of a task: the test of its own slot, then the match on the
\* execution.  Only the task itself fills the slot of an execution that is no
\* PatternMatch, and the task of a PatternMatch reads nothing after its test,
\* so the test and the reads of the operands are one step.
TaskBegun(e, r) ==
  IF already_computed(res.cache, e)
  THEN pc' = pc /\ res' = [res EXCEPT !.task[e] = "dropped"]
  ELSE IF r.kind = "Panic"
  THEN pc' = "aborted" /\ res' = [res EXCEPT !.result = ResPanic, !.panic = "task"]
  ELSE IF r.kind = "None"
  THEN pc' = pc /\ res' = [res EXCEPT !.task[e] = "kept"]
  ELSE /\ pc' = pc
       /\ res' = [res EXCEPT !.task[e] = "computed", !.held[e] = r,
                             !.computed = @ \cup {e},
                             !.twice = IF e \in res.computed THEN @ \cup {e} ELSE @]

TaskStart ==
  /\ pc = "wave"
  /\ Cardinality(InFlight(res.task)) < MaxInFlight
  /\ \E e \in DOMAIN res.task :
       /\ res.task[e] = "todo"
       /\ TaskBegun(e, new_res(e, res.cache, Cur, res.pattern))
  /\ UNCHANGED <<chars, padding>>

\* cache.get_mut(key).insert(value) by the task e.
Inserted(r, key, value, e) ==
  [r EXCEPT !.cache[key] = value, !.writer[key] = e,
            !.over = IF IsSome(r.cache[key]) THEN @ \cup {key} ELSE @]

\* The task stores its result in its own slot.
TaskInsert ==
  /\ pc = "wave"
  /\ \E e \in DOMAIN res.task :
       /\ res.task[e] = "computed"
       /\ res' = [Inserted(res, e, res.held[e], e) EXCEPT
                    !.task[e] = IF e \in DOMAIN res.pm_cache THEN "inserted"
                                ELSE "dropped"]
  /\ UNCHANGED <<chars, padding, pc>>

\* The task stores its result in the slot of the PatternMatch that pm_cache
\* names for its execution.
TaskInsertPatternMatch ==
  /\ pc = "wave"
  /\ \E e \in DOMAIN res.task :
       /\ res.task[e] = "inserted"
       /\ res' = [Inserted(res, res.pm_cache[e], res.held[e], e) EXCEPT
                    !.task[e] = "dropped"]
  /\ UNCHANGED <<chars, padding, pc>>

Kept(task) == {e \in DOMAIN task : task[e] = "kept"}

\* The end of the loop without the test of remaining_ops.
loop_ended_unchecked(remaining_ops) ==
  /\ pc' = "returned"
  /\ res' = [res EXCEPT !.result = Slot(res.cache, res.final_op),
                        !.remaining_ops = remaining_ops,
                        !.task = <<>>, !.held = <<>>]

\* The end of the loop: the abort on remaining operations, else the value of
\* the slot of final_op.
LoopEnded(remaining_ops) ==
  IF remaining_ops # {}
  THEN /\ pc' = "aborted"
       /\ res' = [res EXCEPT !.result = ResPanic, !.task = <<>>, !.held = <<>>,
                             !.remaining_ops = remaining_ops,
                             !.panic = "Could not compute remaining operations."]
  ELSE IF ~IsSome(Slot(res.cache, res.final_op))
  THEN /\ pc' = "aborted"
       /\ res' = [res EXCEPT !.result = ResPanic, !.task = <<>>, !.held = <<>>,
                             !.remaining_ops = remaining_ops,
                             !.panic = "unwrap on None"]
  ELSE /\ pc' = "returned"
       /\ res' = [res EXCEPT !.result = res.cache[res.final_op],
                             !.remaining_ops = remaining_ops,
                             !.task = <<>>, !.held = <<>>]

\* while remaining_ops.len() < prev_len
loop_condition(remaining_len, prev_len) == remaining_len < prev_len

\* collect() of a wave, then the test of the while loop: another wave on the
\* executions the tasks gave back, or the end of the loop.
WaveEnd ==
  /\ pc = "wave"
  /\ \A e \in DOMAIN res.task : res.task[e] \in {"kept", "dropped"}
  /\ IF loop_condition(Cardinality(Kept(res.task)), res.prev_len)
     THEN /\ pc' = pc
          /\ res' = [res EXCEPT !.remaining_ops = Kept(res.task),
                                !.prev_len = Cardinality(Kept(res.task)),
                                !.task = [e \in Kept(res.task) |-> "todo"],
                                !.held = [e \in Kept(res.task) |-> ResNone],
                                !.wave = @ + 1]
     ELSE LoopEnded(Kept(res.task))
  /\ UNCHANGED <<chars, padding>>

\* ------------------------------------------------------- engine calls, task by task
\* The contents: "ab" unpadded, "a" end-padded to two slots, its reverse
\* (start-padded), "a" alone, and "a" + "a" with a zero in the middle.
WaveContents ==
  {Encrypt(<<97, 98>>, 0), Encrypt(<<97>>, 2), reversed(Encrypt(<<97>>, 2)),
   Encrypt(<<97>>, 0), Concat(Encrypt(<<97>>, 2), Encrypt(<<97>>, 0))}

WavePatterns ==
  {ClearPattern(<<97>>), ClearPattern(<<97, 98>>), ClearPattern(<<97, 97>>),
   EncryptedPattern(Encrypt(<<97>>, 0)), EncryptedPattern(Encrypt(<<97, 98>>, 0))}

\* StartIndex and RawStartIndex build and evaluate the same plan.
WaveResults == {"Bool", "StartIndex"}

\* The calls that are run task by task: every call on a content of at most
\* two slots, and contains with a clear pattern of two bytes on three slots.
WaveCallable(pattern, match_options) ==
  /\ PatternLen(pattern) <= Len(chars)
  /\ Len(chars) > 2 =>
       /\ pattern = ClearPattern(<<97, 97>>)
       /\ match_options = MatchingOptions(FALSE, FALSE, "Bool")

WaveInit ==
  \E s \in WaveContents :
    /\ chars = s.chars
    /\ padding = s.padding
    /\ pc = "idle"
    /\ res = NoRes

\* A string operation creates an engine and calls has_match or find on it.
FindMatchCall ==
  /\ pc = "idle"
  /\ \E pattern \in WavePatterns, sof \in BOOLEAN, eof \in BOOLEAN,
        result \in WaveResults :
       /\ WaveCallable(pattern, MatchingOptions(sof, eof, result))
       /\ FindMatchOn(NewEngine, pattern, MatchingOptions(sof, eof, result))

\* The caller has the result; the engine goes out of scope.
EngineDropped ==
  /\ pc \in {"returned", "aborted"}
  /\ pc' = "idle"
  /\ res' = NoRes
  /\ UNCHANGED <<chars, padding>>

WaveNext ==
  \/ FindMatchCall
  \/ TaskStart
  \/ TaskInsert
  \/ TaskInsertPatternMatch
  \/ WaveEnd
  \/ EngineDropped

WaveSpec == WaveInit /\ [][WaveNext]_vars

\* ------------------------------------------------------- plan construction calls
\* build_execution_plan reads the length of the content and its Padding
\* flags only: the contents are strings of 'a' under every Padding.
PlanInit ==
  \E n \in 1..MaxN, start \in BOOLEAN, middle \in BOOLEAN, end \in BOOLEAN :
    /\ chars = [i \in 1..n |-> 97]
    /\ padding = [start |-> start, middle |-> middle, end |-> end]
    /\ pc = "idle"
    /\ res = NoRes

\* find_match on a new engine, up to the return of build_execution_plan.
BuildExecutionPlan ==
  /\ pc = "idle"
  /\ \E kind \in PatternKinds, p \in Patterns \cup {<<97, 97>>},
        sof \in BOOLEAN, eof \in BOOLEAN, result \in ResultKinds :
       /\ Len(p) <= Len(chars)
       /\ res' = [op |-> "plan", pattern |-> MkPattern(kind, p),
                  options |-> MatchingOptions(sof, eof, result),
                  plan |-> build_execution_plan(Cur, MkPattern(kind, p),
                                                MatchingOptions(sof, eof, result))]
  /\ pc' = "answered"
  /\ UNCHANGED <<chars, padding>>

PlanNext ==
  \/ BuildExecutionPlan
  \/ Return

PlanSpec == PlanInit /\ [][PlanNext]_vars

Planned == pc = "answered" /\ res.op = "plan"

\* The PatternMatch nodes of the plan, which are the expanded (c, p).
PatternMatches(plan) == {e \in plan.cache : e.op = "PatternMatch"}

\* Zero consumption is permitted at (c, p): the region allows zeros and more
\* content than pattern remains.
ZeroPermitted(c, p) ==
  /\ Len(chars) - c > PatternLen(res.pattern) - p
  /\ \/ p = 0 /\ padding.start
     \/ p > 0 /\ padding.middle

\* A branch without the zero-prefix and zero-suffix ANDs around it.
Unwrapped(ex, c, p) ==
  IF c > 0 /\ p = 0 /\ res.options.sof /\ padding.start
  THEN (IF Len(chars) - c > 1 /\ PatternLen(res.pattern) - p = 1
           /\ res.options.eof /\ padding.end
        THEN ex.l_res.r_res ELSE ex.r_res)
  ELSE IF Len(chars) - c > 1 /\ PatternLen(res.pattern) - p = 1
          /\ res.options.eof /\ padding.end
  THEN ex.l_res
  ELSE ex

\* C23: for every expanded (c, p) at which zero consumption is permitted, the
\* last pattern position p = M-1 included, the right branch built for
\* PatternMatch(c, p) is Eq(c, Zero) AND PatternMatch(c+1, p), possibly inside
\* the zero-prefix/suffix ANDs: a consumed zero does not complete a match.
C23_ZeroBranch ==
  Planned =>
    \A pm \in PatternMatches(res.plan) :
      ZeroPermitted(pm.c_pos, pm.p_pos) =>
        \E e \in DOMAIN res.plan.pm_cache :
          /\ res.plan.pm_cache[e] = pm
          /\ e.op = "Or"
          /\ Unwrapped(e.r_res, pm.c_pos, pm.p_pos) =
               ExAnd(ExEq(pm.c_pos, PidZero), ExPatternMatch(pm.c_pos + 1, pm.p_pos))

\* C29: pm_cache is injective on the plans the engine builds for N >= M >= 1,
\* with clear patterns as with encrypted ones: no two PatternMatch nodes are
\* registered under the same combinator, so every PatternMatch of the cache
\* is the value of exactly one key of pm_cache, and that key is in the cache.
C29_PmCacheInjective ==
  Planned =>
    /\ res.plan.panic = ""
    /\ \A pm \in PatternMatches(res.plan) :
         Cardinality({e \in DOMAIN res.plan.pm_cache : res.plan.pm_cache[e] = pm}) = 1
    /\ \A e \in DOMAIN res.plan.pm_cache :
         e \in res.plan.cache /\ res.plan.pm_cache[e] \in PatternMatches(res.plan)
    /\ Cardinality(DOMAIN res.plan.pm_cache) = Cardinality(PatternMatches(res.plan))

\* The plan of contains with the clear pattern "aa" on three slots: both
\* PatternMatch(1, 0) and PatternMatch(1, 1) test the byte 'a' at slot 1.
C29_Witness ==
  /\ Planned
  /\ res.pattern = ClearPattern(<<97, 97>>)
  /\ Len(chars) = 3
  /\ ~res.options.sof
  /\ {ExPatternMatch(1, 0), ExPatternMatch(1, 1)} \subseteq res.plan.cache
  /\ ExEq(1, PidByte(97)) \in DOMAIN res.plan.pm_cache

\* The calls on the unpadded "ab" and on the start-padded "a", in which every
\* task of a wave is run and a wave that has run all its tasks ends.
LiveInit ==
  \E s \in {Encrypt(<<97, 98>>, 0), reversed(Encrypt(<<97>>, 2))} :
    /\ chars = s.chars
    /\ padding = s.padding
    /\ pc = "idle"
    /\ res = NoRes

WaveFair ==
  /\ LiveInit
  /\ [][WaveNext]_vars
  /\ WF_vars(TaskStart \/ TaskInsert \/ TaskInsertPatternMatch \/ WaveEnd)

InCall == pc \in {"wave", "returned"}

\* The slot of `key` holds Some.
Filled(key) == key \in DOMAIN res.cache /\ res.cache[key].kind \in {"Bool", "Uint"}

C25_WriteOnce ==
  /\ [](InCall => res.over = {} /\ res.twice = {})
  /\ [](pc = "returned" => \A k \in DOMAIN res.cache : Filled(k))
  /\ [][pc = "wave" =>
          \A k \in DOMAIN res.cache :
            res.cache[k].kind # "None" => (res.cache[k])' = res.cache[k]]_vars

\* A call with an index result on an end-padded content has returned: the
\* IndexMatch and StartIndex slots are filled as well.
C25_Witness ==
  /\ pc = "returned"
  /\ padding.end
  /\ res.final_op.op = "StartIndex"
  /\ \E k \in DOMAIN res.cache : k.op = "IndexMatch" /\ res.writer[k] = k

\* The evaluation in which every task of a wave reads the slots as they were
\* when the wave began.
Sequential ==
  RunWaves([k \in DOMAIN res.cache |-> ResNone], DOMAIN res.cache,
           Cardinality(DOMAIN res.cache) + 1, res.pm_cache, Cur, res.pattern)

\* The waves of that evaluation, the last, empty one included.
RECURSIVE CountWaves(_, _, _)
CountWaves(vals, remaining, prev_len) ==
  IF ~(Cardinality(remaining) < prev_len) THEN 0
  ELSE 1 + CountWaves(Wave(vals, remaining, res.pm_cache, Cur, res.pattern).vals,
                      Wave(vals, remaining, res.pm_cache, Cur, res.pattern).remaining,
                      Cardinality(remaining))

\* C26: interleaving independence.  Whatever the order in which the tasks of
\* each wave read the slots and insert their results, the value returned and
\* the final value of every slot are those of the evaluation wave by wave;
\* only the number of waves differs.
C26_InterleavingIndependence ==
  pc = "returned" =>
    /\ res.result = find_match(Cur, res.pattern, res.options)
    /\ res.cache = Sequential.vals

\* A call that returned after fewer waves than the evaluation in which no
\* task sees a result of its own wave.
C26_Witness ==
  /\ pc = "returned"
  /\ res.wave < CountWaves([k \in DOMAIN res.cache |-> ResNone], DOMAIN res.cache,
                           Cardinality(DOMAIN res.cache) + 1)

\* The operands of the execution e hold Some.
Ready(e) ==
  IF e.op \in {"And", "Or", "StartIndex"} THEN Filled(e.l_res) /\ Filled(e.r_res)
  ELSE IF e.op = "IndexMatch" THEN Filled(ExPatternMatch(e.c_pos, e.p_pos))
  ELSE TRUE

\* The task of e holds a result it computed, or has stored it.
HasResult(e) ==
  \/ e.op # "PatternMatch" /\ Filled(e)
  \/ e \in DOMAIN res.task /\ res.task[e] \in {"computed", "inserted"}

\* C27: operand readiness.  An And, Or or StartIndex has a result only when
\* both operand slots hold Some, an IndexMatch(c, p) only when
\* PatternMatch(c, p) does; a task that finds an operand None computes
\* nothing and its execution is pending in the next wave; every Eq is
\* evaluated in the first wave.
C27_OperandReadiness ==
  /\ [](InCall => \A e \in DOMAIN res.cache : HasResult(e) => Ready(e))
  /\ [](InCall /\ res.wave > 1 =>
          \A e \in DOMAIN res.cache : e.op = "Eq" => Filled(e))
  /\ [][pc = "wave" /\ pc' = "wave" =>
          \A e \in DOMAIN res.task :
            /\ (res.wave' = res.wave /\ res.task[e] = "todo" /\ ~Ready(e)
                  /\ (res.task[e])' # "todo")
               => (res.task[e])' = "kept" /\ (res.cache[e])' = res.cache[e]
            /\ (res.wave' # res.wave /\ res.task[e] = "kept")
               => e \in (DOMAIN res.task)' /\ e \in res.remaining_ops']_vars

\* In the first wave of starts_with "ab" on "ab", the And of position 0 was
\* read after its Eq operand was filled and before PatternMatch(1, 1) was:
\* it stays pending.
C27_Witness ==
  /\ pc = "wave"
  /\ res.wave = 1
  /\ ExAnd(ExEq(0, PidByte(97)), ExPatternMatch(1, 1)) \in DOMAIN res.task
  /\ res.task[ExAnd(ExEq(0, PidByte(97)), ExPatternMatch(1, 1))] = "kept"
  /\ Filled(ExEq(0, PidByte(97)))
  /\ ~Filled(ExPatternMatch(1, 1))

\* The left branch at (c, p) without its wrappers: the Eq of the pattern
\* byte, and the PatternMatch to its right below the last position.
LeftMain(ex, c, p) ==
  ex = IF PatternLen(res.pattern) - p < 2 THEN ExEq(c, p_id_at(res.pattern, p))
       ELSE ExAnd(ExEq(c, p_id_at(res.pattern, p)), ExPatternMatch(c + 1, p + 1))

\* The zero branch at (c, p) without its wrappers.
RightMain(ex, c, p) ==
  \/ ex = ExEq(c, PidZero)
  \/ ex = ExAnd(ExEq(c, PidZero), ExPatternMatch(c + 1, p))

\* w is the combinator of PatternMatch(c, p): the Or of the two branches
\* when zero consumption is permitted there, else the left branch.
Designated(w, c, p) ==
  IF ZeroPermitted(c, p)
  THEN /\ w.op = "Or"
       /\ LeftMain(Unwrapped(w.l_res, c, p), c, p)
       /\ RightMain(Unwrapped(w.r_res, c, p), c, p)
  ELSE LeftMain(Unwrapped(w, c, p), c, p)

\* C28: PatternMatch aliasing.  A PatternMatch slot is never computed by its
\* own task; when it holds Some, it was written by the task of its
\* designated combinator (the Or of its two branches, or the single branch)
\* with the value of the combinator, and by no other task.
C28_PatternMatchAliasing ==
  InCall =>
    \A pm \in {k \in DOMAIN res.cache : k.op = "PatternMatch"} :
      /\ pm \notin res.computed
      /\ pm \in DOMAIN res.task => res.task[pm] \in {"todo", "kept", "dropped"}
      /\ pm \notin res.over
      /\ ~Filled(pm) => res.writer[pm] = NoWriter
      /\ Filled(pm) =>
           /\ res.writer[pm] \in DOMAIN res.pm_cache
           /\ res.pm_cache[res.writer[pm]] = pm
           /\ Designated(res.writer[pm], pm.c_pos, pm.p_pos)
           /\ res.cache[res.writer[pm]] = res.cache[pm]

\* On the start-padded "a", PatternMatch(0, 0) was filled by the task of an
\* Or while the call was in a wave.
C28_Witness ==
  /\ pc = "wave"
  /\ chars = <<0, 97>>
  /\ Filled(ExPatternMatch(0, 0))
  /\ res.writer[ExPatternMatch(0, 0)].op = "Or"
  /\ res.task[res.writer[ExPatternMatch(0, 0)]] = "dropped"

\* ------------------------------------------------------- one engine, several calls
\* has_match and find take &mut self: an engine that returned can be called
\* again, on the cache and the pm_cache it holds.  So can an engine whose call
\* aborted in build_execution_plan, when the caller caught the abort: no lock
\* is held at that point and the engine keeps the part of the plan that was
\* stored.  The empty pattern aborts there ("Could not build branch").
ReusePatterns == {ClearPattern(<<>>), ClearPattern(<<97>>), ClearPattern(<<98, 97>>)}

ReuseInit ==
  /\ chars = Encrypt(<<98, 97>>, 0).chars
  /\ padding = Encrypt(<<98, 97>>, 0).padding
  /\ pc = "idle"
  /\ res = NoRes

\* has_match on a new engine.
FirstCall ==
  /\ pc = "idle"
  /\ \E pattern \in ReusePatterns, sof \in BOOLEAN :
       FindMatchOn(NewEngine, pattern, MatchingOptions(sof, FALSE, "Bool"))

\* has_match on the engine of the call that returned, or that aborted before
\* its first wave.
NextCall ==
  /\ pc = "returned" \/ (pc = "aborted" /\ res.wave = 0)
  /\ \E pattern \in ReusePatterns, sof \in BOOLEAN :
       FindMatchOn([cache |-> res.cache, pm_cache |-> res.pm_cache], pattern,
                   MatchingOptions(sof, FALSE, "Bool"))

ReuseNext ==
  \/ FirstCall
  \/ NextCall
  \/ TaskStart
  \/ TaskInsert
  \/ TaskInsertPatternMatch
  \/ WaveEnd
  \/ EngineDropped

ReuseSpec == ReuseInit /\ [][ReuseNext]_vars

\* Every task of the wave has returned.
WaveOver == \A e \in DOMAIN res.task : res.task[e] \in {"kept", "dropped"}

\* C30: stall detection.  When a wave ends with as many pending executions
\* as it started with, and at least one, find_match aborts with "Could not
\* compute ... remaining operations": it starts no other wave and returns no
\* value.
C30_StallDetection ==
  [][(pc = "wave" /\ WaveOver /\ Kept(res.task) # {}
        /\ Cardinality(Kept(res.task)) = res.prev_len)
     => /\ pc' = "aborted"
        /\ res.panic' = "Could not compute remaining operations."
        /\ res.result' = ResPanic
        /\ res.wave' = res.wave]_vars

\* contains "a" on the engine on which contains "" aborted while the plan was
\* built: the Or nodes over PatternMatch(2, 0), which was never stored, are
\* given back by every wave, and the call aborts.
C30_Witness ==
  /\ pc = "aborted"
  /\ res.panic = "Could not compute remaining operations."
  /\ res.remaining_ops # {}
  /\ Cardinality(res.remaining_ops) = res.prev_len
  /\ res.pattern = ClearPattern(<<97>>)

\* ------------------------------------------------------- the plan as a graph
\* The executions whose slots the task of `e` reads (find_match, the match
\* on the execution).
Operands(e) ==
  CASE e.op \in {"And", "Or", "StartIndex"} -> {e.l_res, e.r_res}
    [] e.op = "IndexMatch" -> {ExPatternMatch(e.c_pos, e.p_pos)}
    [] OTHER -> {}

\* C31: when build_execution_plan returns on a new engine, every key of the
\* cache maps to None, and every operand a key refers to (both sides of an
\* And, Or or StartIndex, the PatternMatch of an IndexMatch) and the final
\* node returned are keys of the cache.
C31_PlanClosure ==
  Planned =>
    /\ res.plan.panic = ""
    /\ res.plan.final_op \in res.plan.cache
    /\ \A k \in res.plan.cache :
         /\ Operands(k) \subseteq res.plan.cache
         /\ SlotsAfterBuild(res.plan, NewEngine,
                            ResetKeys(res.plan, NewEngine, Cur, res.pattern,
                                      res.options))[k] = ResNone

\* The plan of find with a pattern of one byte on three slots: the root
\* StartIndex has two StartIndex operands, which have IndexMatch operands.
C31_Witness ==
  /\ Planned
  /\ Len(chars) = 3
  /\ PatternLen(res.pattern) = 1
  /\ res.options.result = "StartIndex"
  /\ ~res.options.sof
  /\ res.plan.final_op.op = "StartIndex"
  /\ res.plan.final_op.l_res.op = "StartIndex"
  /\ res.plan.final_op.l_res.l_res = ExIndexMatch(0, 0)
  /\ ExPatternMatch(0, 0) \in res.plan.cache

\* C32: for N >= M >= 1 every PatternMatch(c, p) of the plan has 0 <= p < M,
\* c < N and N - c >= M - p, every Eq(c, id) has c < N (the leaves of the
\* zero-prefix and zero-suffix ranges included), every PatternId::Index(p)
\* has p < M, and no task of the plan aborts on an index of content.chars or
\* of the pattern.
C32_IndexBounds ==
  Planned =>
    \A e \in res.plan.cache :
      /\ e.op = "PatternMatch" =>
           /\ 0 <= e.p_pos /\ e.p_pos < PatternLen(res.pattern)
           /\ 0 <= e.c_pos /\ e.c_pos < Len(chars)
           /\ Len(chars) - e.c_pos >= PatternLen(res.pattern) - e.p_pos
      /\ e.op = "IndexMatch" =>
           /\ 0 <= e.c_pos /\ e.c_pos < Len(chars)
           /\ e.p_pos = 0
      /\ e.op = "Eq" =>
           /\ 0 <= e.c_pos /\ e.c_pos < Len(chars)
           /\ e.p_id.id = "Index" =>
                /\ res.pattern.kind = "Encrypted"
                /\ 0 <= e.p_id.v /\ e.p_id.v < PatternLen(res.pattern)
           /\ e.p_id.id = "Byte" => res.pattern.kind = "Clear"
      /\ new_res(e, [k \in res.plan.cache |-> ResNone], Cur, res.pattern).kind # "Panic"

\* ends_with with a pattern of two bytes on three end-padded slots: the plan
\* reaches PatternMatch(2, 1) on the last slot and tests that slot for zero
\* in the zero-suffix range of the alignment one slot to the left.
C32_Witness ==
  /\ Planned
  /\ Len(chars) = 3
  /\ PatternLen(res.pattern) = 2
  /\ padding.end
  /\ res.options.eof
  /\ ExPatternMatch(2, 1) \in res.plan.cache
  /\ ExEq(2, PidZero) \in res.plan.cache

\* The worklist loop of build_execution_plan once more, keeping the
\* candidates it popped: the ones it expanded and the ones it skipped.
RECURSIVE Popped(_, _, _, _, _, _)
RECURSIVE PoppedNext(_, _, _, _, _, _)
PoppedNext(e, rest, log, content, pattern, match_options) ==
  Popped(e.b, rest \o e.push, log, content, pattern, match_options)

Popped(b, cands, log, content, pattern, match_options) ==
  IF cands = <<>> \/ b.panic # "" THEN log
  ELSE PoppedNext(
         ExpandCandidate(b, cands[Len(cands)][1], cands[Len(cands)][2],
                         content, pattern, match_options),
         SubSeq(cands, 1, Len(cands) - 1),
         IF already_planned(b.cache, cands[Len(cands)][1], cands[Len(cands)][2])
         THEN [log EXCEPT !.skipped = Append(@, cands[Len(cands)])]
         ELSE [log EXCEPT !.expanded = Append(@, cands[Len(cands)])],
         content, pattern, match_options)

max_start_of(content, pattern, match_options) ==
  IF match_options.sof THEN 0 ELSE Len(content.chars) - PatternLen(pattern)

\* The candidates popped while the plan of the call in res was built.
Worklist ==
  Popped([cache |-> insert_execution_tree({}, RootTree(max_start_of(Cur, res.pattern,
                                                                     res.options),
                                                        res.options)),
          pm_cache |-> <<>>, panic |-> ""],
         [i \in 1..(max_start_of(Cur, res.pattern, res.options) + 1) |-> <<i - 1, 0>>],
         [expanded |-> <<>>, skipped |-> <<>>],
         Cur, res.pattern, res.options)

\* C33: the worklist expands each pair (c, p) at most once, a candidate that
\* is in the cache already being skipped, so the PatternMatch keys of the
\* cache are the pairs expanded, one key per pair, and there are at most
\* (N - M + 1) * M of them.
C33_SharedAlignments ==
  Planned =>
    /\ \A i, j \in 1..Len(Worklist.expanded) :
         Worklist.expanded[i] = Worklist.expanded[j] => i = j
    /\ \A i \in 1..Len(Worklist.skipped) :
         \E j \in 1..Len(Worklist.expanded) :
           Worklist.expanded[j] = Worklist.skipped[i]
    /\ PatternMatches(res.plan) =
         {ExPatternMatch(Worklist.expanded[i][1], Worklist.expanded[i][2]) :
            i \in 1..Len(Worklist.expanded)}
    /\ Cardinality(PatternMatches(res.plan)) = Len(Worklist.expanded)
    /\ Cardinality(PatternMatches(res.plan))
         <= (Len(chars) - PatternLen(res.pattern) + 1) * PatternLen(res.pattern)

\* contains with a pattern of two bytes on three slots padded everywhere: the
\* pair (2, 1) is pushed by (1, 0) and by (1, 1) and expanded once, and the
\* plan holds all (N - M + 1) * M = 4 pairs.
C33_Witness ==
  /\ Planned
  /\ Len(chars) = 3
  /\ PatternLen(res.pattern) = 2
  /\ <<2, 1>> \in {Worklist.skipped[i] : i \in 1..Len(Worklist.skipped)}
  /\ Cardinality(PatternMatches(res.plan)) = 4

\* The leaves of the tree of `op` nodes under the execution e.
RECURSIVE TreeLeaves(_, _)
TreeLeaves(e, op) ==
  IF e.op = op THEN TreeLeaves(e.l_res, op) \cup TreeLeaves(e.r_res, op) ELSE {e}

\* The start positions of the call in res: 0 alone with sof, 0..N-M otherwise.
Starts == IF res.options.sof THEN {0} ELSE 0..(Len(chars) - PatternLen(res.pattern))

\* C34: the final node is an Or tree for result = Bool and a StartIndex tree
\* for StartIndex and RawStartIndex; its leaves are the starts (c, 0) with
\* c = 0 when sof is set and 0 <= c <= N - M otherwise, as PatternMatch(c, 0)
\* under Or and IndexMatch(c, 0) under StartIndex; exactly these starts are
\* seeded (they are the first candidates of the worklist) and each has its
\* PatternMatch in the cache.
C34_CandidateStarts ==
  Planned =>
    /\ res.plan.final_op.op = (IF res.options.result = "Bool" THEN "Or" ELSE "StartIndex")
    /\ TreeLeaves(res.plan.final_op, res.plan.final_op.op) =
         {(IF res.options.result = "Bool" THEN ExPatternMatch(c, 0)
           ELSE ExIndexMatch(c, 0)) : c \in Starts}
    /\ \A c \in Starts : ExPatternMatch(c, 0) \in res.plan.cache
    /\ \A c \in Starts :
         \E i \in 1..Len(Worklist.expanded) : Worklist.expanded[i] = <<c, 0>>
    /\ (res.options.sof /\ ~padding.start) =>
         \A pm \in PatternMatches(res.plan) : pm.p_pos = 0 => pm.c_pos = 0

\* find with a pattern of one byte on three slots: a StartIndex tree over
\* IndexMatch(0, 0), IndexMatch(1, 0) and IndexMatch(2, 0).
C34_Witness ==
  /\ Planned
  /\ ~res.options.sof
  /\ res.options.result = "RawStartIndex"
  /\ Len(chars) = 3
  /\ PatternLen(res.pattern) = 1
  /\ TreeLeaves(res.plan.final_op, "StartIndex") =
       {ExIndexMatch(0, 0), ExIndexMatch(1, 0), ExIndexMatch(2, 0)}

\* The executions whose values the slot of e is made from: the operands its
\* task reads and, for a PatternMatch, the keys pm_cache maps to it.
Feeds(plan, e) ==
  Operands(e)
  \cup (IF e.op = "PatternMatch"
        THEN {k \in DOMAIN plan.pm_cache : plan.pm_cache[k] = e}
        ELSE {})

\* The nodes left after removing, again and again, every node none of whose
\* feeds is left: empty exactly when no node feeds itself, directly or
\* through other nodes.
RECURSIVE OnCycle(_, _)
OnCycle(plan, nodes) ==
  IF {e \in nodes : Feeds(plan, e) \cap nodes = {}} = {} THEN nodes
  ELSE OnCycle(plan, {e \in nodes : Feeds(plan, e) \cap nodes # {}})

\* The PatternMatch nodes an execution refers to without passing through
\* another PatternMatch.
RECURSIVE PatternMatchesUnder(_)
PatternMatchesUnder(e) ==
  IF e.op = "PatternMatch" THEN {e}
  ELSE UNION {PatternMatchesUnder(o) : o \in Operands(e)}

\* C35: the plan is acyclic.  Every PatternMatch that the combinator of
\* PatternMatch(c, p) refers to is at the content position c + 1, so c
\* strictly increases along PatternMatch-to-PatternMatch edges, and no node
\* is, directly or through other nodes, an operand of itself.
C35_Acyclic ==
  Planned =>
    /\ \A k \in DOMAIN res.plan.pm_cache :
         \A q \in PatternMatchesUnder(k) :
           /\ q.c_pos > res.plan.pm_cache[k].c_pos
           /\ q.c_pos = res.plan.pm_cache[k].c_pos + 1
    /\ OnCycle(res.plan, res.plan.cache) = {}

\* A chain of three PatternMatch nodes on three start-padded slots with a
\* pattern of two bytes: (0, 0) consumes a zero to (1, 0), which consumes the
\* first byte to (2, 1).
C35_Witness ==
  /\ Planned
  /\ Len(chars) = 3
  /\ PatternLen(res.pattern) = 2
  /\ padding.start
  /\ \E k1, k2 \in DOMAIN res.plan.pm_cache :
       /\ res.plan.pm_cache[k1] = ExPatternMatch(0, 0)
       /\ ExPatternMatch(1, 0) \in PatternMatchesUnder(k1)
       /\ res.plan.pm_cache[k2] = ExPatternMatch(1, 0)
       /\ ExPatternMatch(2, 1) \in PatternMatchesUnder(k2)

\* ------------------------------------------------------- evaluated plans
\* The wave loop of find_match on the plan of a new engine: the slots when
\* the loop ends.
RunPlan(plan, content, pattern) ==
  RunWaves([k \in plan.cache |-> ResNone], plan.cache, Cardinality(plan.cache) + 1,
           plan.pm_cache, content, pattern)

\* What a call of find leaves: the plan, the slots at the end of the wave
\* loop, the value of find_match and the index find returns.
Evaluated(pattern, match_options, plan, run) ==
  [op |-> "find", pattern |-> pattern, options |-> match_options, plan |-> plan,
   vals |-> run.vals,
   raw |-> FinalResult(run, plan.final_op),
   index |-> VisibleIndex(FinalResult(run, plan.final_op), Cur, match_options)]

FindPlanned(pattern, match_options, plan) ==
  Evaluated(pattern, match_options, plan, RunPlan(plan, Cur, pattern))

\* The contents find is called on: an encrypted string with its padding at
\* the end, its reverse with the padding at the start, and the end-padded "a"
\* followed by a string, with a zero in the middle.
FindInit ==
  \E clear \in ClearStrings, block \in 0..MaxN :
    \E s \in {Encrypt(clear, block), reversed(Encrypt(clear, block)),
              Concat(Encrypt(<<97>>, 2), Encrypt(clear, 0))} :
      /\ Len(s.chars) <= MaxN
      /\ chars = s.chars
      /\ padding = s.padding
      /\ pc = "idle"
      /\ res = NoRes

\* SimpleEngine::find on a new engine, result StartIndex or RawStartIndex.
FindCall ==
  /\ pc = "idle"
  /\ \E kind \in PatternKinds, p \in Patterns, sof \in BOOLEAN, eof \in BOOLEAN,
        result \in ResultKinds \ {"Bool"} :
       /\ Len(p) <= Len(chars)
       /\ res' = FindPlanned(MkPattern(kind, p), MatchingOptions(sof, eof, result),
                             build_execution_plan(Cur, MkPattern(kind, p),
                                                  MatchingOptions(sof, eof, result)))
  /\ pc' = "answered"
  /\ UNCHANGED <<chars, padding>>

FindNext ==
  \/ FindCall
  \/ Return

FindSpec == FindInit /\ [][FindNext]_vars

Found == pc = "answered" /\ res.op = "find"

\* The least element of a non-empty set of numbers.
Least(S) == CHOOSE x \in S : \A y \in S : x <= y

\* C36: StartIndex(l, r) evaluates to l when l is not 0 and to r otherwise,
\* and the top-level StartIndex tree over IndexMatch(0, 0) .. IndexMatch(N-M, 0)
\* (IndexMatch(0, 0) alone with sof) evaluates to the smallest c + 1 whose
\* IndexMatch(c, 0) is not 0, and to 0 when all of them are 0.
C36_StartIndexFold ==
  Found =>
    /\ res.raw.kind = "Uint"
    /\ \A k \in DOMAIN res.vals :
         k.op = "StartIndex" =>
           /\ res.vals[k].kind = "Uint"
           /\ res.vals[k].u = (IF res.vals[k.l_res].u # 0 THEN res.vals[k.l_res].u
                               ELSE res.vals[k.r_res].u)
    /\ res.raw.u =
         (IF \A c \in Starts : res.vals[ExIndexMatch(c, 0)].u = 0 THEN 0
          ELSE Least({c + 1 : c \in {d \in Starts : res.vals[ExIndexMatch(d, 0)].u # 0}}))

\* find "a" in "aa": IndexMatch(0, 0) is 1 and IndexMatch(1, 0) is 2, and the
\* StartIndex over them is 1.
C36_Witness ==
  /\ Found
  /\ ~res.options.sof
  /\ PatternLen(res.pattern) = 1
  /\ chars = <<97, 97>>
  /\ res.vals[ExIndexMatch(0, 0)].u = 1
  /\ res.vals[ExIndexMatch(1, 0)].u = 2
  /\ res.raw.u = 1

\* C37: IndexMatch(c, p) evaluates to c + 1 when PatternMatch(c, p) is true
\* and S[c] is not 0, and to 0 otherwise; so the raw start index the engine
\* returns, when it is not 0, is c + 1 for a slot c that holds no zero, and
\* the index find returns for RawStartIndex is that c.
C37_IndexMatchGuard ==
  Found =>
    /\ \A k \in DOMAIN res.vals :
         k.op = "IndexMatch" =>
           /\ res.vals[ExPatternMatch(k.c_pos, k.p_pos)].kind = "Bool"
           /\ res.vals[k] =
                ResUint(IF res.vals[ExPatternMatch(k.c_pos, k.p_pos)].b
                           /\ chars[k.c_pos + 1] # 0
                        THEN k.c_pos + 1 ELSE 0)
    /\ res.raw.u # 0 =>
         /\ res.raw.u \in 1..Len(chars)
         /\ chars[res.raw.u] # 0
         /\ res.vals[ExPatternMatch(res.raw.u - 1, 0)].b
    /\ res.options.result = "RawStartIndex" =>
         /\ res.index.kind = "Int"
         /\ res.index.u = res.raw.u - 1

\* find "a" in the start-padded "a" (slots 0, 'a'): PatternMatch(0, 0) is
\* true through the consumed zero, IndexMatch(0, 0) is 0, and the raw start
\* index is 2.
C37_Witness ==
  /\ Found
  /\ chars = <<0, 97>>
  /\ padding.start
  /\ ~res.options.sof
  /\ res.vals[ExPatternMatch(0, 0)] = ResBool(TRUE)
  /\ res.vals[ExIndexMatch(0, 0)] = ResUint(0)
  /\ res.raw = ResUint(2)

\* ------------------------------------------------------- reduction trees
\* The last position of the ranges c_start..c_end that are reduced.
MaxLeaf == 4

OpTypes == {"and", "or", "start_index"}

\* The value of the leaf at c_pos: a boolean for the leaves of "and" (Eq)
\* and "or" (PatternMatch), and for "start_index" the value of an IndexMatch,
\* which is c_pos + 1 or 0.
LeafValue(op_type, c_pos, bit) ==
  IF op_type = "start_index" THEN ResUint(IF bit THEN c_pos + 1 ELSE 0)
  ELSE ResBool(bit)

leaf_p_id(op_type) == IF op_type = "and" THEN PidZero ELSE PidIndex(0)

\* The slots of the tree with its leaves filled and its combinators None.
TreeSlots(keys, op_type, bits) ==
  [k \in keys |->
     IF k.op \in {"Eq", "PatternMatch", "IndexMatch"}
     THEN LeafValue(op_type, k.c_pos, bits[k.c_pos])
     ELSE ResNone]

\* The tree of build_leaves and build_bitwise_execution_tree inserted in an
\* empty cache and evaluated by the wave loop on the values of its leaves.
TreeKeys(tree, c_start, c_end, op_type) ==
  insert_execution_tree({}, tree)
    \cup {make_leaf_op(op_type, c, leaf_p_id(op_type)) : c \in c_start..c_end}

TreeRun(tree, keys, op_type, bits) ==
  FinalResult(RunWaves(TreeSlots(keys, op_type, bits), keys, Cardinality(keys) + 1,
                       <<>>, FheString(<<>>, NoPadding), ClearPattern(<<>>)),
              tree.op)

TreeValue(tree, c_start, c_end, op_type, bits) ==
  TreeRun(tree, TreeKeys(tree, c_start, c_end, op_type), op_type, bits)

\* The operation of a combinator on two values.
Combine(op_type, l, r) ==
  CASE op_type = "and" -> ResBool(l.b /\ r.b)
    [] op_type = "or" -> ResBool(l.b \/ r.b)
    [] op_type = "start_index" -> ResUint(EvalStartIndex(l.u, r.u))

\* The left-to-right fold of the operation over the leaves from..c_end,
\* starting from acc.
RECURSIVE LinearFold(_, _, _, _, _)
LinearFold(op_type, bits, from, c_end, acc) ==
  IF from > c_end THEN acc
  ELSE LinearFold(op_type, bits, from + 1, c_end,
                  Combine(op_type, acc, LeafValue(op_type, from, bits[from])))

TreeInit ==
  /\ chars = <<>>
  /\ padding = NoPadding
  /\ pc = "idle"
  /\ res = NoRes

\* One range reduced: the balanced tree and its value, next to the linear
\* fold over the same leaves.
BuildTree ==
  /\ pc = "idle"
  /\ \E c_start \in 0..MaxLeaf, c_end \in 0..MaxLeaf, op_type \in OpTypes :
       /\ c_start <= c_end
       /\ \E bits \in [c_start..c_end -> BOOLEAN] :
            res' = [op |-> "tree", c_start |-> c_start, c_end |-> c_end,
                    op_type |-> op_type, bits |-> bits,
                    nodes |-> build_leaves(c_start, c_end, leaf_p_id(op_type), op_type),
                    value |-> TreeValue(
                                build_bitwise_execution_tree(
                                  build_leaves(c_start, c_end, leaf_p_id(op_type), op_type),
                                  op_type),
                                c_start, c_end, op_type, bits),
                    linear |-> LinearFold(op_type, bits, c_start + 1, c_end,
                                          LeafValue(op_type, c_start, bits[c_start]))]
  /\ pc' = "answered"
  /\ UNCHANGED <<chars, padding>>

TreeNext ==
  \/ BuildTree
  \/ Return

TreeSpec == TreeInit /\ [][TreeNext]_vars

\* C38: for every range c_start..c_end with c_start <= c_end, of one element
\* or more, starting at an even or an odd position, and for and, or and
\* start_index, the value of the tree that build_leaves and
\* build_bitwise_execution_tree produce equals the left-to-right fold of the
\* operation over the leaves c_start..c_end.
C38_BalancedEqualsLinear ==
  (pc = "answered" /\ res.op = "tree") =>
    /\ res.value.kind = (IF res.op_type = "start_index" THEN "Uint" ELSE "Bool")
    /\ res.value = res.linear

\* The range 1..3 under start_index: four leaves with the first doubled, the
\* leaf at 1 is 0 and the leaves at 2 and 3 are not, and the value is 3.
C38_Witness ==
  /\ pc = "answered"
  /\ res.op = "tree"
  /\ res.op_type = "start_index"
  /\ res.c_start = 1
  /\ res.c_end = 3
  /\ Len(res.nodes) = 4
  /\ res.nodes[1] = res.nodes[2]
  /\ ~res.bits[1] /\ res.bits[2] /\ res.bits[3]
  /\ res.value = ResUint(3)

\* ------------------------------------------------------- shortint scalar bitwise operations
RECURSIVE BitXor(_, _)
BitXor(x, y) ==
  IF x = 0 THEN y
  ELSE IF y = 0 THEN x
  ELSE ((x + y) % 2) + 2 * BitXor(x \div 2, y \div 2)

\* rhs: u8.
ScalarMax == 255

\* The parameter sets of the server key: one and two bits of message, as
\* many of carry.
ServerKeys ==
  {[message_modulus |-> 2, carry_modulus |-> 2],
   [message_modulus |-> 4, carry_modulus |-> 4]}

\* The plaintexts under a server key, carry included.
Plaintexts(server_key) ==
  0..(server_key.message_modulus * server_key.carry_modulus - 1)

\* A ciphertext is modelled by the plaintext it encrypts, carry included,
\* with its message modulus.
Ciphertexts(server_key) ==
  {[value |-> v, message_modulus |-> server_key.message_modulus] :
     v \in Plaintexts(server_key)}

Message(ct) == ct.value % ct.message_modulus

\* The table of the closure f over the message: the input is reduced to its
\* message, and so is what f returns.
generate_msg_lookup_table(server_key, f, modulus) ==
  [x \in Plaintexts(server_key) |-> f[x % modulus] % modulus]

\* The bootstrap replaces the plaintext by its entry in the table.
apply_lookup_table_assign(server_key, ct, lut) ==
  [ct EXCEPT !.value = lut[ct.value]]

\* The _assign functions take lhs by `&mut`: the operator gives the
\* ciphertext lhs holds when the function returns.
unchecked_scalar_bitand_assign(server_key, lhs, rhs) ==
  apply_lookup_table_assign(
    server_key, lhs,
    generate_msg_lookup_table(server_key, [x \in Plaintexts(server_key) |-> BitAnd(x, rhs)],
                              lhs.message_modulus))

\* The non-assign functions give the pair of what lhs holds when the
\* function returns and of the ciphertext returned: the work is done on a
\* clone of lhs.
unchecked_scalar_bitand(server_key, lhs, rhs) ==
  [lhs |-> lhs, result |-> unchecked_scalar_bitand_assign(server_key, lhs, rhs)]

smart_scalar_bitand_assign(server_key, lhs, rhs) ==
  unchecked_scalar_bitand_assign(server_key, lhs, rhs)

smart_scalar_bitand(server_key, lhs, rhs) ==
  [lhs |-> lhs, result |-> smart_scalar_bitand_assign(server_key, lhs, rhs)]

unchecked_scalar_bitxor_assign(server_key, lhs, rhs) ==
  apply_lookup_table_assign(
    server_key, lhs,
    generate_msg_lookup_table(server_key, [x \in Plaintexts(server_key) |-> BitXor(x, rhs)],
                              lhs.message_modulus))

unchecked_scalar_bitxor(server_key, lhs, rhs) ==
  [lhs |-> lhs, result |-> unchecked_scalar_bitxor_assign(server_key, lhs, rhs)]

smart_scalar_bitxor_assign(server_key, lhs, rhs) ==
  unchecked_scalar_bitxor_assign(server_key, lhs, rhs)

smart_scalar_bitxor(server_key, lhs, rhs) ==
  [lhs |-> lhs, result |-> smart_scalar_bitxor_assign(server_key, lhs, rhs)]

\* The table of the previous operation applied where this one's is meant.
unchecked_scalar_bitor_assign_xor(server_key, lhs, rhs) ==
  unchecked_scalar_bitxor_assign(server_key, lhs, rhs)

unchecked_scalar_bitor_assign(server_key, lhs, rhs) ==
  apply_lookup_table_assign(
    server_key, lhs,
    generate_msg_lookup_table(server_key, [x \in Plaintexts(server_key) |-> BitOr(x, rhs)],
                              lhs.message_modulus))

unchecked_scalar_bitor(server_key, lhs, rhs) ==
  [lhs |-> lhs, result |-> unchecked_scalar_bitor_assign(server_key, lhs, rhs)]

smart_scalar_bitor_assign(server_key, lhs, rhs) ==
  unchecked_scalar_bitor_assign(server_key, lhs, rhs)

smart_scalar_bitor(server_key, lhs, rhs) ==
  [lhs |-> lhs, result |-> smart_scalar_bitor_assign(server_key, lhs, rhs)]

ScalarOps == {"bitand", "bitxor", "bitor"}

NoCiphertext == [value |-> -1, message_modulus |-> 0]

\* One call recorded: the function, lhs before and after, rhs, and the
\* ciphertext returned (none for an _assign function).
ScalarCalled(fn, kind, assign, before, rhs, lhs, result) ==
  [op |-> "scalar", fn |-> fn, kind |-> kind, assign |-> assign,
   before |-> before, rhs |-> rhs, lhs |-> lhs, result |-> result]

Returned(fn, kind, before, rhs, out) ==
  ScalarCalled(fn, kind, FALSE, before, rhs, out.lhs, out.result)

Assigned(fn, kind, before, rhs, out) ==
  ScalarCalled(fn, kind, TRUE, before, rhs, out, NoCiphertext)

ScalarInit ==
  /\ chars = <<>>
  /\ padding = NoPadding
  /\ pc = "idle"
  /\ res = NoRes

UncheckedScalar ==
  /\ pc = "idle"
  /\ \E kind \in ScalarOps, server_key \in ServerKeys, rhs \in 0..ScalarMax :
       \E lhs \in Ciphertexts(server_key) :
         res' = Returned("unchecked", kind, lhs, rhs,
                         CASE kind = "bitand" -> unchecked_scalar_bitand(server_key, lhs, rhs)
                           [] kind = "bitxor" -> unchecked_scalar_bitxor(server_key, lhs, rhs)
                           [] kind = "bitor" -> unchecked_scalar_bitor(server_key, lhs, rhs))
  /\ pc' = "answered"
  /\ UNCHANGED <<chars, padding>>

UncheckedScalarAssign ==
  /\ pc = "idle"
  /\ \E kind \in ScalarOps, server_key \in ServerKeys, rhs \in 0..ScalarMax :
       \E lhs \in Ciphertexts(server_key) :
         res' = Assigned("unchecked", kind, lhs, rhs,
                         CASE kind = "bitand" -> unchecked_scalar_bitand_assign(server_key, lhs, rhs)
                           [] kind = "bitxor" -> unchecked_scalar_bitxor_assign(server_key, lhs, rhs)
                           [] kind = "bitor" -> unchecked_scalar_bitor_assign(server_key, lhs, rhs))
  /\ pc' = "answered"
  /\ UNCHANGED <<chars, padding>>

SmartScalar ==
  /\ pc = "idle"
  /\ \E kind \in ScalarOps, server_key \in ServerKeys, rhs \in 0..ScalarMax :
       \E lhs \in Ciphertexts(server_key) :
         res' = Returned("smart", kind, lhs, rhs,
                         CASE kind = "bitand" -> smart_scalar_bitand(server_key, lhs, rhs)
                           [] kind = "bitxor" -> smart_scalar_bitxor(server_key, lhs, rhs)
                           [] kind = "bitor" -> smart_scalar_bitor(server_key, lhs, rhs))
  /\ pc' = "answered"
  /\ UNCHANGED <<chars, padding>>

SmartScalarAssign ==
  /\ pc = "idle"
  /\ \E kind \in ScalarOps, server_key \in ServerKeys, rhs \in 0..ScalarMax :
       \E lhs \in Ciphertexts(server_key) :
         res' = Assigned("smart", kind, lhs, rhs,
                         CASE kind = "bitand" -> smart_scalar_bitand_assign(server_key, lhs, rhs)
                           [] kind = "bitxor" -> smart_scalar_bitxor_assign(server_key, lhs, rhs)
                           [] kind = "bitor" -> smart_scalar_bitor_assign(server_key, lhs, rhs))
  /\ pc' = "answered"
  /\ UNCHANGED <<chars, padding>>

ScalarNext ==
  \/ UncheckedScalar
  \/ UncheckedScalarAssign
  \/ SmartScalar
  \/ SmartScalarAssign
  \/ Return

ScalarSpec == ScalarInit /\ [][ScalarNext]_vars

\* The operation on the bits of two numbers, one bit at a time.
Bit(x, i) == (x \div (2 ^ i)) % 2

BitOf(kind, a, b) ==
  CASE kind = "bitand" -> a * b
    [] kind = "bitxor" -> (a + b) % 2
    [] kind = "bitor" -> IF a + b > 0 THEN 1 ELSE 0

RECURSIVE StdBitwise(_, _, _, _)
StdBitwise(kind, x, y, i) ==
  IF i < 0 THEN 0
  ELSE (2 ^ i) * BitOf(kind, Bit(x, i), Bit(y, i)) + StdBitwise(kind, x, y, i - 1)

\* What the call wrote or returned.
Written == IF res.assign THEN res.lhs ELSE res.result

\* C39: the scalar bitwise operations of shortint. For and, xor and or, a
\* non-assign function leaves its input as it was and returns the
\* ciphertext its _assign function writes; a smart function gives what the
\* unchecked one gives; and the message of the result is (x OP rhs) modulo
\* the message modulus, for every message x and every rhs of a u8: every one
\* of the twelve functions gives the ciphertext of that one message.
C39_ScalarBitwise ==
  (pc = "answered" /\ res.op = "scalar") =>
    /\ Written = [res.before EXCEPT
                    !.value = StdBitwise(res.kind, Message(res.before), res.rhs, 7)
                                % res.before.message_modulus]
    /\ ~res.assign => res.lhs = res.before

\* smart_scalar_bitor on the message 1 under a carry bit, with rhs 6, of
\* which only the bits under the message modulus 4 remain: 1 | 6 = 7, and
\* the message returned is 3, lhs still holding 5.
C39_Witness ==
  /\ pc = "answered"
  /\ res.op = "scalar"
  /\ res.fn = "smart"
  /\ res.kind = "bitor"
  /\ ~res.assign
  /\ res.before = [value |-> 5, message_modulus |-> 4]
  /\ res.rhs = 6
  /\ res.lhs.value = 5
  /\ res.result.value = 3

====
